---- MODULE Spec2Model ----
(***************************************************************************)
(* Coffee drop monitor (coffee_monitor.py): the reconciliation engine      *)
(* run_once, the two stores it maintains (the Firestore collection and     *)
(* its SQLite mirror), sync, simulate, the tried ledger and the message    *)
(* composer with notify_ntfy.  run_once is modelled statement by           *)
(* statement; the other commands are one step each.                        *)
(*                                                                         *)
(* Values.  A URL is a natural number (scraped product pages are 1, 2, 3;  *)
(* a simulated drop test-{ts}-{n} is 10*ts + n).  A timestamp is the       *)
(* clock reading 1..MaxClock; 0 stands for the empty string "".  SQLite's  *)
(* in_stock and tried are the integers 0/1, Firestore's in_stock is a      *)
(* boolean.                                                                *)
(***************************************************************************)
EXTENDS Integers, Sequences, FiniteSets, TLC

\* ------------------------------------------------------------------ bounds
MaxClock == 2
\* The longest history a tried record reaches.
MaxHistory == 2

\* ------------------------------------------------------------ input domains
\* ROASTERS: the configured sources, in configured order.
ROASTERS == <<"r1", "r2">>
\* The product pages each source's listing page may link to.  Page 2 can be
\* listed by both sources.
Listing2 == [r \in {"r1", "r2"} |-> IF r = "r1" THEN {1, 2} ELSE {2}]
Listing3 == [r \in {"r1"} |-> {1, 2, 3}]
Listing1 == [r \in {"r1"} |-> {1}]
ListingEach == [r \in {"r1", "r2"} |-> IF r = "r1" THEN {1} ELSE {2}]
SimDefaultRoasters == <<"Simulation Roaster A", "Simulation Roaster B", "Simulation Roaster C">>
\* simulate --roasters: none given (the defaults apply).
SimRoasterArgs == {<<>>}
\* The --count arguments of the simulation.
SimCounts == {1, 2}

DetailFields == {"producer", "country", "region", "process", "variety", "notes", "profile"}

\* ------------------------------------------------------------------ helpers
EmptyMap == <<>>

\* dict.get(key, default)
Get(map, key, default) == IF key \in DOMAIN map THEN map[key] ELSE default

\* f with the keys in S removed
Without(f, S) == [k \in DOMAIN f \ S |-> f[k]]

\* A digest of the URL and the source name together.
Product_id_by_roaster(prod) ==
  (prod.url * 37 + 11 + (IF prod.roaster = "r1" THEN 0 ELSE 500)) % 1009

\* Product.id(): sha1(url)[:16], a deterministic digest of the URL alone.
Product_id(prod) == (prod.url * 37 + 11) % 1009

\* product_id_from_url(url)
product_id_from_url(url) == (url * 37 + 11) % 1009

\* ------------------------------------------------------------------ state
VARIABLES
  fs,                   \* Firestore main collection: doc id -> document
  tried,                \* Firestore tried collection: doc id -> document
  dbCols,               \* columns of the SQLite table coffees ({}: no file)
  rows,                 \* SQLite rows: url -> row (a function on the columns)
  clock,                \* wall clock, seconds
  pc,                   \* position of the running command
  existing,             \* run_once: the index loaded at the start
  new_items,            \* run_once: the ordered new-items list
  seen_ids_by_roaster,  \* run_once: defaultdict(set)
  seen_urls_by_roaster, \* run_once: defaultdict(set)
  succeeded_roasters,   \* run_once: set of source names
  roasters,             \* run_once: the sources it was called with
  cfg,                  \* run_once: index of the source being processed
  yielded,              \* parse_products: seen_urls of the current listing
  p,                    \* run_once: the item being processed, with first/last
  hist,                 \* what the current run did (history, read by properties)
  prev,                 \* what the previous run did (history)
  raised,               \* the exception the last command ended with ("": none)
  last                  \* the command that ran last ("": none yet)

vars == <<fs, tried, dbCols, rows, clock, pc, existing, new_items,
          seen_ids_by_roaster, seen_urls_by_roaster, succeeded_roasters,
          roasters, cfg, yielded, p, hist, prev, raised, last>>

stores == <<fs, tried, dbCols, rows>>
runVars == <<existing, new_items, seen_ids_by_roaster, seen_urls_by_roaster,
             succeeded_roasters, roasters, cfg, yielded, p>>

\* ------------------------------------------------------------ SQLite schema
\* SCHEMA: the columns of CREATE TABLE IF NOT EXISTS coffees.
SCHEMA == {"id", "roaster", "title", "url", "price", "in_stock", "first_seen",
           "last_seen"} \cup DetailFields

\* Column defaults (a column without a DEFAULT holds NULL).
ColumnDefault(c) ==
  CASE c = "in_stock" -> 1
    [] c = "tried" -> 0
    [] c \in DetailFields -> ""
    [] c = "price" -> ""
    [] OTHER -> "NULL"

\* ensure_db_schema: the columns it adds to a table with columns cols.
MissingColumns(cols) ==
  ({"price", "tried"} \cup DetailFields) \ cols

\* A migration that recreates the table: the columns are completed and the
\* rows are gone.
ensure_db_schema_recreate(db) ==
  [cols |-> db.cols \cup MissingColumns(db.cols), rows |-> EmptyMap]

\* ensure_db_schema: ALTER TABLE ADD COLUMN for each missing column, then
\* price populated from a legacy price_text column.
ensure_db_schema(db) ==
  LET added == MissingColumns(db.cols)
      after == db.cols \cup added
      widen(r) == [c \in after \ {"id"} |->
                     IF c \in DOMAIN r THEN r[c] ELSE ColumnDefault(c)]
      legacy(r) == IF "price" \in after /\ "price_text" \in after
                     THEN [r EXCEPT !["price"] =
                             IF r["price"] \in {"", "NULL"} THEN r["price_text"] ELSE @]
                     ELSE r
  IN [cols |-> after, rows |-> [u \in DOMAIN db.rows |-> legacy(widen(db.rows[u]))]]

\* db_connect: CREATE TABLE IF NOT EXISTS, then ensure_db_schema.
db_connect(db) ==
  ensure_db_schema([cols |-> IF db.cols = {} THEN SCHEMA ELSE db.cols,
                    rows |-> db.rows])

\* An INSERT/UPDATE naming the columns named raises OperationalError when the
\* table lacks one of them.
SqlRaises(cols, named) == ~(named \subseteq cols)

\* INSERT INTO coffees (named columns) VALUES (...)
SqlInsert(cols, vals) ==
  [c \in cols \ {"id"} |-> IF c \in DOMAIN vals THEN vals[c] ELSE ColumnDefault(c)]

\* UPDATE coffees SET named columns WHERE url = ?
SqlUpdate(row, vals) ==
  [c \in DOMAIN row |-> IF c \in DOMAIN vals THEN vals[c] ELSE row[c]]

\* ------------------------------------------------------------------ items
\* Product as parse_products builds it: the enrichment fields default to "".
Product(roaster, title, url, price_text, in_stock, image) ==
  [f \in {"roaster", "title", "url", "price_text", "in_stock", "image"} \cup DetailFields |->
     CASE f = "roaster" -> roaster
       [] f = "title" -> title
       [] f = "url" -> url
       [] f = "price_text" -> price_text
       [] f = "in_stock" -> in_stock
       [] f = "image" -> image
       [] OTHER -> ""]

\* What a listing page can say of one product.
ListingTitles == {"Dark Roast"}
ListingPrices == {"$16.00"}
ListingImages == {""}

\* scrape_product_details: {} when the page fetch fails, no parser is
\* registered or the parser raises; otherwise the parsed fields.
ParsedDetails == [f \in DetailFields \cup {"image"} |-> IF f = "image" THEN "img" ELSE "d"]
DetailOutcomes == {EmptyMap, ParsedDetails}

\* run_once lines 1239-1246: the enrichment fields are overwritten from details.
Enrich(prod, details) ==
  [f \in DOMAIN prod |->
     IF f \in DetailFields THEN Get(details, f, "")
     ELSE IF f = "image" THEN Get(details, "image", prod.image)
     ELSE prod[f]]

NoProduct == [none |-> TRUE]

\* --------------------------------------------------------------- Firestore
\* DocumentReference.set(data, merge): with merge the fields not named in
\* data keep their stored values.
FirestoreSet(coll, id, data, merge) ==
  LET old == IF merge /\ id \in DOMAIN coll THEN coll[id] ELSE EmptyMap
      doc == [f \in DOMAIN old \cup DOMAIN data |->
                IF f \in DOMAIN data THEN data[f] ELSE old[f]]
  IN [k \in DOMAIN coll \cup {id} |-> IF k = id THEN doc ELSE coll[k]]

\* The record upsert_firestore writes.
ProductDoc(prod, first_seen, last_seen) ==
  [f \in {"roaster", "title", "url", "price", "in_stock", "first_seen", "last_seen",
          "image"} \cup DetailFields |->
     CASE f = "price" -> prod.price_text
       [] f = "in_stock" -> prod.in_stock
       [] f = "first_seen" -> first_seen
       [] f = "last_seen" -> last_seen
       [] OTHER -> prod[f]]

\* upsert_firestore: the collection after the write.
upsert_firestore(coll, prod, first_seen, last_seen) ==
  FirestoreSet(coll, Product_id(prod), ProductDoc(prod, first_seen, last_seen), TRUE)

\* load_firestore_index: doc id -> first_seen ("" when the field is missing).
load_firestore_index(coll) ==
  [id \in DOMAIN coll |-> Get(coll[id], "first_seen", 0)]

\* A staleness pass that covers every source found in the collection, not
\* only the keys of the seen map.
mark_stale_every_roaster(coll, seen_by, failing) ==
  [id \in DOMAIN coll |->
     IF \A r \in DOMAIN seen_by : id \notin seen_by[r]
       THEN [coll[id] EXCEPT !["in_stock"] = FALSE]
       ELSE coll[id]]

\* A pass that also stamps last_seen on the documents it updates.
mark_stale_by_roaster_touching(coll, seen_by, failing) ==
  [id \in DOMAIN coll |->
     IF Get(coll[id], "roaster", "") \in DOMAIN seen_by \ failing
        /\ id \notin seen_by[Get(coll[id], "roaster", "")]
       THEN [coll[id] EXCEPT !["in_stock"] = FALSE, !["last_seen"] = @ + 1]
       ELSE coll[id]]

\* A pass without the handler around each source: a failing source ends it,
\* here at its first source, and no document is updated.
mark_stale_by_roaster_aborting(coll, seen_by, failing) ==
  IF failing = {} \/ DOMAIN seen_by = {}
    THEN [id \in DOMAIN coll |->
            IF Get(coll[id], "roaster", "") \in DOMAIN seen_by
               /\ id \notin seen_by[Get(coll[id], "roaster", "")]
              THEN [coll[id] EXCEPT !["in_stock"] = FALSE]
              ELSE coll[id]]
    ELSE coll

\* mark_stale_by_roaster: the collection after the pass; failing is the set
\* of sources whose query or commit raises (caught per source).
mark_stale_by_roaster(coll, seen_by, failing) ==
  [id \in DOMAIN coll |->
     LET d == coll[id]
         r == Get(d, "roaster", "")
     IN IF r \in DOMAIN seen_by /\ r \notin failing
           /\ ~(seen_by[r] # {} /\ id \in seen_by[r])
          THEN [d EXCEPT !["in_stock"] = FALSE]
          ELSE d]

\* mark_stale_by_roaster: the number of documents updated.
mark_stale_by_roaster_total(coll, seen_by, failing) ==
  Cardinality({id \in DOMAIN coll :
     LET r == Get(coll[id], "roaster", "")
     IN r \in DOMAIN seen_by /\ r \notin failing
        /\ ~(seen_by[r] # {} /\ id \in seen_by[r])})

\* ------------------------------------------------------------ SQLite mirror
EnsureRowInsertCols == {"roaster", "title", "url", "price", "in_stock", "first_seen",
                        "last_seen", "image"} \cup DetailFields
EnsureRowUpdateCols == {"title", "price", "in_stock", "last_seen", "image"} \cup DetailFields

\* The values ensure_row_sqlite binds.
ProductRow(prod, first_seen, last_seen) ==
  [c \in EnsureRowInsertCols |->
     CASE c = "price" -> prod.price_text
       [] c = "in_stock" -> IF prod.in_stock THEN 1 ELSE 0
       [] c = "first_seen" -> first_seen
       [] c = "last_seen" -> last_seen
       [] OTHER -> prod[c]]

\* ensure_row_sqlite raises when the statement names a missing column.
ensure_row_sqlite_raises(db, prod) ==
  IF prod.url \in DOMAIN db.rows
    THEN SqlRaises(db.cols, EnsureRowUpdateCols \cup {"url"})
    ELSE SqlRaises(db.cols, EnsureRowInsertCols)

\* The columns an existing row gets from ensure_row_sqlite.
EnsureRowUpdate(vals) == [c \in EnsureRowUpdateCols |-> vals[c]]

\* ensure_row_sqlite: the rows after the upsert (legacy price_text mirrored).
ensure_row_sqlite(db, prod, first_seen, last_seen) ==
  LET vals == ProductRow(prod, first_seen, last_seen)
      u == prod.url
      base == IF u \in DOMAIN db.rows
                THEN SqlUpdate(db.rows[u], EnsureRowUpdate(vals))
                ELSE SqlInsert(db.cols, vals)
      row == IF "price_text" \in db.cols
               THEN [base EXCEPT !["price_text"] = prod.price_text]
               ELSE base
  IN [k \in DOMAIN db.rows \cup {u} |-> IF k = u THEN row ELSE db.rows[k]]

\* A pass that skips a source whose set of URLs is empty.
mark_stale_sqlite_skip_empty(rws, seen_by) ==
  [u \in DOMAIN rws |->
     IF rws[u]["roaster"] \in DOMAIN seen_by
        /\ seen_by[rws[u]["roaster"]] # {}
        /\ u \notin seen_by[rws[u]["roaster"]]
       THEN [rws[u] EXCEPT !["in_stock"] = 0]
       ELSE rws[u]]

\* mark_stale_sqlite: the rows after the pass.
mark_stale_sqlite(rws, seen_by) ==
  [u \in DOMAIN rws |->
     IF rws[u]["roaster"] \in DOMAIN seen_by /\ u \notin seen_by[rws[u]["roaster"]]
       THEN [rws[u] EXCEPT !["in_stock"] = 0]
       ELSE rws[u]]

\* mark_stale_sqlite: the summed rowcount.
mark_stale_sqlite_total(rws, seen_by) ==
  Cardinality({u \in DOMAIN rws :
     rws[u]["roaster"] \in DOMAIN seen_by /\ u \notin seen_by[rws[u]["roaster"]]})

\* ensure_row_sqlite_from_doc: the values read from a Firestore document.
DocRow(data) ==
  [c \in {"roaster", "title", "url", "price", "in_stock", "first_seen", "last_seen"}
          \cup DetailFields |->
     CASE c = "in_stock" -> IF Get(data, "in_stock", FALSE) THEN 1 ELSE 0
       [] c \in {"url", "first_seen", "last_seen"} -> Get(data, c, 0)
       [] OTHER -> Get(data, c, "")]

\* The columns an existing row gets from ensure_row_sqlite_from_doc.
FromDocUpdate(vals) ==
  [c \in {"title", "price", "in_stock", "first_seen", "last_seen"} \cup DetailFields |-> vals[c]]

\* ensure_row_sqlite_from_doc: the rows after the upsert.
ensure_row_sqlite_from_doc(db, data) ==
  LET vals == DocRow(data)
      u == vals["url"]
      base == IF u \in DOMAIN db.rows
                THEN SqlUpdate(db.rows[u], FromDocUpdate(vals))
                ELSE SqlInsert(db.cols, vals)
      row == IF "price_text" \in db.cols
               THEN [base EXCEPT !["price_text"] = vals["price"]]
               ELSE base
  IN [k \in DOMAIN db.rows \cup {u} |-> IF k = u THEN row ELSE db.rows[k]]

\* ------------------------------------------------ notification composer
\* The three characters of the message texts outside ASCII, spelled out:
\* U+2022 (bullet), U+2014 (em dash), U+2026 (horizontal ellipsis).
BULLET == "(bullet)"
EM_DASH == "(em dash)"
ELLIPSIS == "(ellipsis)"

\* The largest new-items list the composer is given.
MaxNew == 11

\* Source names, listed in the order sorted() puts them in.
SourceOrder == <<"Acme", "Bolt", "Crux", "Dune", "Echo", "Fern", "Glow", "Haze", "Iris", "Zed">>

\* sep.join(strs)
RECURSIVE Join(_, _)
Join(sep, strs) ==
  IF strs = <<>> THEN ""
  ELSE IF Len(strs) = 1 THEN strs[1]
  ELSE strs[1] \o sep \o Join(sep, Tail(strs))

\* s[:k]
Take(s, k) == SubSeq(s, 1, IF Len(s) < k THEN Len(s) ELSE k)

\* A truncation that keeps max_lines lines in all, the marker included.
truncate_lines_marker_counted(lines, max_lines) ==
  IF Len(lines) <= max_lines THEN lines
  ELSE Append(Take(lines, max_lines - 1),
              "+" \o ToString(Len(lines) - max_lines + 1) \o " more" \o ELLIPSIS)

\* _truncate_lines
truncate_lines(lines, max_lines) ==
  IF Len(lines) <= max_lines THEN lines
  ELSE Append(Take(lines, max_lines),
              "+" \o ToString(Len(lines) - max_lines) \o " more" \o ELLIPSIS)

\* The distinct names of a list in the order they first occur.
RECURSIVE first_seen_set(_)
first_seen_set(names) ==
  IF names = <<>> THEN <<>>
  ELSE LET before == first_seen_set(Take(names, Len(names) - 1))
           name == names[Len(names)]
       IN IF \E i \in 1..Len(before) : before[i] = name THEN before
          ELSE Append(before, name)

\* sorted(set(names))
sorted_set(names) ==
  SelectSeq(SourceOrder, LAMBDA r : \E i \in 1..Len(names) : names[i] = r)

\* Line 723: [p.roaster for (p, _) in new_items]
RoastersOf(news) == [i \in 1..Len(news) |-> news[i].prod.roaster]

\* Lines 735-737: by_r[r], the items of source r in list order.
by_r(news, r) == SelectSeq(news, LAMBDA it : it.prod.roaster = r)

\* The id of the first item of the source that sorts first.
first_pid_by_source(news) ==
  by_r(news, sorted_set(RoastersOf(news))[1])[1].id

\* Line 722: first_pid = new_items[0][1]
first_pid(news) == news[1].id

\* Lines 741-744: the bullet line of one item of a single-source message.
ItemLine(q) ==
  BULLET \o " " \o q.title
    \o (IF q.price_text # "" THEN " " \o EM_DASH \o " " \o q.price_text ELSE "")

\* Lines 751-757: the bullet line of one source of a multi-source message.
RoasterLine(news, r) ==
  LET items == by_r(news, r)
      shown == Take(items, 2)
      extras == Len(items) - Len(shown)
      ro_line == r \o ": " \o Join("; ", [i \in 1..Len(shown) |-> shown[i].prod.title])
  IN BULLET \o " " \o ro_line
       \o (IF extras > 0 THEN "; +" \o ToString(extras) \o " more" ELSE "")

\* build_ntfy_message: (title, body_lines, deep_id); None is the empty tuple.
build_ntfy_message(news) ==
  IF news = <<>> THEN [title |-> "", body |-> <<>>, deep_id |-> <<>>]
  ELSE
    LET n == Len(news)
        unique_roasters == sorted_set(RoastersOf(news))
    IN IF n = 1
         THEN LET q == news[1].prod
              IN [title |-> "New from " \o q.roaster \o ": " \o q.title,
                  body |-> <<IF q.price_text # "" THEN q.price_text ELSE "New coffee!",
                             q.url>>,
                  deep_id |-> <<news[1].id>>]
       ELSE IF Len(unique_roasters) = 1
         THEN LET r == unique_roasters[1]
                  items == by_r(news, r)
              IN [title |-> ToString(n) \o " new coffees from " \o r,
                  body |-> truncate_lines([i \in 1..Len(items) |-> ItemLine(items[i].prod)], 8),
                  deep_id |-> <<first_pid(news)>>]
       ELSE [title |-> "New drops: " \o ToString(n) \o " coffees from "
                         \o ToString(Len(unique_roasters)) \o " roasters",
             body |-> truncate_lines([i \in 1..Len(unique_roasters) |->
                                        RoasterLine(news, unique_roasters[i])], 8),
             deep_id |-> <<first_pid(news)>>]

\* A composed message with the list it was composed from.
Composed(news) ==
  [input |-> news, out |-> build_ntfy_message(news)]

\* No message composed.
NoMsg == Composed(<<>>)

\* A new-items list of n items over the first m sources taken in turn (in
\* reverse alphabetical order with rev); with gaps, every second item has
\* no price.
ComposerInput(n, m, rev, gaps) ==
  [i \in 1..n |->
     LET k == ((i - 1) % m) + 1
         r == SourceOrder[IF rev THEN m + 1 - k ELSE k]
         price == IF gaps /\ i % 2 = 0 THEN "" ELSE "$" \o ToString(i)
     IN [prod |-> Product(r, "T" \o ToString(i), i, price, TRUE, ""),
         id |-> product_id_from_url(i)]]

\* ------------------------------------------------------------- run history
NoHist ==
  [fs0 |-> EmptyMap, rows0 |-> EmptyMap, raised |-> {}, obs |-> {},
   remoteWrote |-> {}, localWrote |-> {}, failed |-> {}, faulted |-> FALSE,
   lastNow |-> EmptyMap, staleFs |-> {}, staleSql |-> {}, notified |-> 0,
   deep_ids |-> <<>>, ret |-> -1, msg |-> NoMsg,
   delivery |-> [outcome |-> "not called", sent |-> <<>>],
   staleFsFailed |-> {}, staleSqlFailed |-> FALSE, bare |-> {}]

NoPrev == [ran |-> FALSE, wrote |-> {}]

\* ------------------------------------------------------------------- Init
\* The stores are empty.  The SQLite file is absent, or holds a coffees
\* table left by another build of the program whose table has an image
\* column (db_connect keeps whatever table it finds and only adds columns).
Init ==
  /\ fs = EmptyMap
  /\ tried = EmptyMap
  /\ dbCols \in {{}, SCHEMA \cup {"image"}}
  /\ rows = EmptyMap
  /\ clock = 1
  /\ pc = "idle"
  /\ existing = EmptyMap
  /\ new_items = <<>>
  /\ seen_ids_by_roaster = EmptyMap
  /\ seen_urls_by_roaster = EmptyMap
  /\ succeeded_roasters = {}
  /\ roasters = <<>>
  /\ cfg = 0
  /\ yielded = {}
  /\ p = NoProduct
  /\ hist = NoHist
  /\ prev = NoPrev
  /\ raised = ""
  /\ last = ""

\* Tables left by earlier builds: the price in price_text, in price, or in
\* both; with or without the tried column; with all, one or none of the
\* detail columns.
LegacyColumnSets ==
  {{"id", "roaster", "title", "url", "in_stock", "first_seen", "last_seen"}
     \cup P \cup T \cup D :
     P \in {{"price_text"}, {"price"}, {"price", "price_text"}},
     T \in {{}, {"tried"}},
     D \in {{}, {"producer"}, DetailFields}}

\* A row of such a table (NULL is the string "NULL").
LegacyRow(cols, price, flag) ==
  [c \in cols \ {"id"} |->
     CASE c = "roaster" -> "r1"
       [] c = "title" -> "Dark Roast"
       [] c \in {"url", "in_stock", "first_seen", "last_seen"} -> 1
       [] c \in {"price", "price_text"} -> price
       [] c = "tried" -> flag
       [] OTHER -> "d"]

\* The program starts on a table left by an earlier build, empty or holding
\* one row; the remote store is empty.
InitLegacy ==
  /\ fs = EmptyMap
  /\ tried = EmptyMap
  /\ dbCols \in LegacyColumnSets
  /\ rows \in {EmptyMap} \cup
              {[u \in {1} |-> LegacyRow(dbCols, price, flag)] :
                 price \in {"", "$16.00", "NULL"}, flag \in {0, 1}}
  /\ clock = 1
  /\ pc = "idle"
  /\ existing = EmptyMap
  /\ new_items = <<>>
  /\ seen_ids_by_roaster = EmptyMap
  /\ seen_urls_by_roaster = EmptyMap
  /\ succeeded_roasters = {}
  /\ roasters = <<>>
  /\ cfg = 0
  /\ yielded = {}
  /\ p = NoProduct
  /\ hist = NoHist
  /\ prev = NoPrev
  /\ raised = ""
  /\ last = ""

\* datetime.now(): the clock advances between any two steps.
Tick ==
  /\ clock < MaxClock
  /\ clock' = clock + 1
  /\ UNCHANGED <<stores, pc, runVars, hist, prev, raised, last>>

\* ---------------------------------------------------------------- run_once
\* defaultdict(set): d[k].add(v) creates the key.
DefaultdictAdd(d, k, v) ==
  [x \in DOMAIN d \cup {k} |-> IF x = k THEN Get(d, k, {}) \cup {v} ELSE d[x]]

\* Lines 1267 and 1273: the seen map restricted to the succeeded sources.
SeenFiltered(seen_by, succeeded) ==
  [r \in {x \in DOMAIN seen_by : x \in succeeded} |-> seen_by[r]]

\* A loop that runs the staleness passes after each source.
NextSourcePcStaleEachSource == "stale_fs"

\* After the current source: the next one, or the staleness passes.
NextSourcePc == IF cfg + 1 > Len(roasters) THEN "stale_fs" ELSE "fetch"

\* Lines 1218-1225: open the stores, load the index, empty accumulators.
RunStart(rs) ==
  /\ pc = "idle"
  /\ LET db == db_connect([cols |-> dbCols, rows |-> rows])
     IN /\ dbCols' = db.cols
        /\ rows' = db.rows
        /\ hist' = [NoHist EXCEPT !.fs0 = fs, !.rows0 = db.rows]
  /\ existing' = load_firestore_index(fs)
  /\ new_items' = <<>>
  /\ seen_ids_by_roaster' = EmptyMap
  /\ seen_urls_by_roaster' = EmptyMap
  /\ succeeded_roasters' = {}
  /\ roasters' = rs
  /\ cfg' = 1
  /\ pc' = IF Len(rs) = 0 THEN "stale_fs" ELSE "fetch"
  /\ raised' = ""
  /\ last' = "run"
  /\ UNCHANGED <<fs, tried, clock, yielded, p, prev>>

\* Lines 1228-1235: fetch_html or parse_products raises; the source is skipped.
FetchRaise ==
  /\ pc = "fetch"
  /\ hist' = [hist EXCEPT !.raised = @ \cup {roasters[cfg]}]
  /\ cfg' = cfg + 1
  /\ pc' = NextSourcePc
  /\ UNCHANGED <<stores, clock, existing, new_items, seen_ids_by_roaster,
                 seen_urls_by_roaster, succeeded_roasters, roasters, yielded, p, prev, raised, last>>

\* Lines 1229-1232: the listing is fetched and parsed.
FetchOk ==
  /\ pc = "fetch"
  /\ succeeded_roasters' = succeeded_roasters \cup {roasters[cfg]}
  /\ yielded' = {}
  /\ pc' = "items"
  /\ UNCHANGED <<stores, clock, existing, new_items, seen_ids_by_roaster,
                 seen_urls_by_roaster, roasters, cfg, p, hist, prev, raised, last>>

\* Lines 1236-1246: the next item of the listing (parse_products yields each
\* URL once per listing), enriched.
NextItem(listing, stocks, outcomes) ==
  /\ pc = "items"
  /\ \E u \in listing[roasters[cfg]] \ yielded, t \in ListingTitles, pr \in ListingPrices,
        st \in stocks, im \in ListingImages, details \in outcomes :
       LET prod == Enrich(Product(roasters[cfg], t, u, pr, st, im), details)
       IN /\ p' = [prod |-> prod, pid |-> 0, is_new |-> FALSE, first |-> 0, last |-> 0]
          /\ yielded' = yielded \cup {u}
          /\ hist' = [hist EXCEPT !.obs = @ \cup
                         {[roaster |-> roasters[cfg], url |-> u]},
                                  !.bare = IF details = EmptyMap
                                             THEN @ \cup {<<roasters[cfg], u>>}
                                             ELSE @ \ {<<roasters[cfg], u>>}]
  /\ pc' = "remote"
  /\ UNCHANGED <<stores, clock, existing, new_items, seen_ids_by_roaster,
                 seen_urls_by_roaster, succeeded_roasters, roasters, cfg, prev, raised, last>>

\* Line 1263: the listing is exhausted.
EndItems ==
  /\ pc = "items"
  /\ cfg' = cfg + 1
  /\ pc' = NextSourcePc
  /\ UNCHANGED <<stores, clock, existing, new_items, seen_ids_by_roaster,
                 seen_urls_by_roaster, succeeded_roasters, roasters, yielded, p, hist, prev, raised, last>>

\* A classification that stamps a known item as first seen now and last
\* seen when the index says it was first seen.
ClassifyLastFromIndex(prod, index, now) ==
  [prod |-> prod, pid |-> Product_id(prod), is_new |-> Product_id(prod) \notin DOMAIN index,
   first |-> now,
   last |-> IF Get(index, Product_id(prod), 0) # 0 THEN Get(index, Product_id(prod), 0) ELSE now]

\* A classification that ignores the index: every item new, first seen now.
ClassifyAlwaysNew(prod, index, now) ==
  [prod |-> prod, pid |-> Product_id(prod), is_new |-> TRUE, first |-> now, last |-> now]

\* Lines 1248-1252: identifier, classification and timestamps of the item.
Classify(prod, index, now) ==
  LET pid == Product_id(prod)
      is_new == pid \notin DOMAIN index
  IN [prod |-> prod, pid |-> pid, is_new |-> is_new,
      first |-> IF is_new THEN now
                ELSE IF Get(index, pid, 0) # 0 THEN Get(index, pid, 0) ELSE now,
      last |-> now]

ItemKey == <<p.prod.roaster, p.prod.url>>

\* Lines 1248-1253: the Firestore write succeeds.
PersistRemoteOk ==
  /\ pc = "remote"
  /\ LET c == Classify(p.prod, existing, clock)
     IN /\ p' = c
        /\ fs' = upsert_firestore(fs, c.prod, c.first, c.last)
        /\ hist' = [hist EXCEPT !.remoteWrote = @ \cup {ItemKey},
                                !.lastNow = (c.prod.url :> c.last) @@ @]
  /\ pc' = "local"
  /\ UNCHANGED <<tried, dbCols, rows, clock, existing, new_items, seen_ids_by_roaster,
                 seen_urls_by_roaster, succeeded_roasters, roasters, cfg, yielded, prev, raised, last>>

\* An except branch that still records the item as new and as seen.
SkipItemRecorded ==
  /\ p' = NoProduct
  /\ pc' = "items"
  /\ new_items' = Append(new_items, [prod |-> p.prod, id |-> Product_id(p.prod)])
  /\ seen_ids_by_roaster' =
       [x \in DOMAIN seen_ids_by_roaster \cup {p.prod.roaster} |->
          IF x = p.prod.roaster
            THEN Get(seen_ids_by_roaster, x, {}) \cup {Product_id(p.prod)}
            ELSE seen_ids_by_roaster[x]]
  /\ seen_urls_by_roaster' =
       [x \in DOMAIN seen_urls_by_roaster \cup {p.prod.roaster} |->
          IF x = p.prod.roaster
            THEN Get(seen_urls_by_roaster, x, {}) \cup {p.prod.url}
            ELSE seen_urls_by_roaster[x]]
  /\ UNCHANGED <<clock, existing, succeeded_roasters, roasters, cfg, yielded, prev, raised, last>>

\* An except branch that lets the exception leave run_once.
SkipItemPropagating ==
  /\ p' = NoProduct
  /\ pc' = "idle"
  /\ UNCHANGED <<clock, existing, new_items, seen_ids_by_roaster,
                 seen_urls_by_roaster, succeeded_roasters, roasters, cfg, yielded, prev, raised, last>>

\* Lines 1260-1262: the except branch; the loop goes on with the next item.
SkipItem ==
  /\ p' = NoProduct
  /\ pc' = "items"
  /\ UNCHANGED <<clock, existing, new_items, seen_ids_by_roaster,
                 seen_urls_by_roaster, succeeded_roasters, roasters, cfg, yielded, prev, raised, last>>

\* A failed Firestore write after which the SQLite write is made all the same.
PersistRemoteFailMirrored ==
  /\ pc = "remote"
  /\ ~ensure_row_sqlite_raises([cols |-> dbCols, rows |-> rows], p.prod)
  /\ rows' = ensure_row_sqlite([cols |-> dbCols, rows |-> rows], p.prod, clock, clock)
  /\ hist' = [hist EXCEPT !.failed = @ \cup {ItemKey}, !.faulted = TRUE,
                          !.localWrote = @ \cup {ItemKey}]
  /\ UNCHANGED <<fs, tried, dbCols>>
  /\ SkipItem

\* Lines 1253, 1260-1262: the Firestore write raises; the item is skipped.
PersistRemoteFail ==
  /\ pc = "remote"
  /\ hist' = [hist EXCEPT !.failed = @ \cup {ItemKey}, !.faulted = TRUE]
  /\ UNCHANGED stores
  /\ SkipItem

\* A recording that puts a new item at the head of the new-items list.
RecordItemAtHead ==
  /\ new_items' = IF p.is_new THEN <<[prod |-> p.prod, id |-> p.pid]>> \o new_items
                   ELSE new_items
  /\ seen_ids_by_roaster' = DefaultdictAdd(seen_ids_by_roaster, p.prod.roaster, p.pid)
  /\ seen_urls_by_roaster' = DefaultdictAdd(seen_urls_by_roaster, p.prod.roaster, p.prod.url)

\* Lines 1256-1259: the item is recorded as new and as seen.
RecordItem ==
  /\ new_items' = IF p.is_new THEN Append(new_items, [prod |-> p.prod, id |-> p.pid])
                   ELSE new_items
  /\ seen_ids_by_roaster' = DefaultdictAdd(seen_ids_by_roaster, p.prod.roaster, p.pid)
  /\ seen_urls_by_roaster' = DefaultdictAdd(seen_urls_by_roaster, p.prod.roaster, p.prod.url)

\* Lines 1255-1259: the SQLite write succeeds; the item is recorded.
PersistLocalOk ==
  /\ pc = "local"
  /\ ~ensure_row_sqlite_raises([cols |-> dbCols, rows |-> rows], p.prod)
  /\ rows' = ensure_row_sqlite([cols |-> dbCols, rows |-> rows], p.prod, p.first, p.last)
  /\ RecordItem
  /\ hist' = [hist EXCEPT !.localWrote = @ \cup {ItemKey}]
  /\ p' = NoProduct
  /\ pc' = "items"
  /\ UNCHANGED <<fs, tried, dbCols, clock, existing, succeeded_roasters, roasters, cfg,
                 yielded, prev, raised, last>>

\* Lines 1255, 1260-1262: the SQLite statement names a column the table
\* lacks and raises; the item is skipped.
PersistLocalSchemaError ==
  /\ pc = "local"
  /\ ensure_row_sqlite_raises([cols |-> dbCols, rows |-> rows], p.prod)
  /\ hist' = [hist EXCEPT !.failed = @ \cup {ItemKey}]
  /\ UNCHANGED stores
  /\ SkipItem

\* Lines 1255, 1260-1262: the SQLite write raises (disk, lock); the item is skipped.
PersistLocalFail ==
  /\ pc = "local"
  /\ ~ensure_row_sqlite_raises([cols |-> dbCols, rows |-> rows], p.prod)
  /\ hist' = [hist EXCEPT !.failed = @ \cup {ItemKey}, !.faulted = TRUE]
  /\ UNCHANGED stores
  /\ SkipItem

\* Line 1267: the seen-ids map handed to the Firestore staleness pass.
SeenIdsFiltered == SeenFiltered(seen_ids_by_roaster, succeeded_roasters)

\* Line 1273: the seen-urls map handed to the SQLite staleness pass.
SeenUrlsFiltered == SeenFiltered(seen_urls_by_roaster, succeeded_roasters)

\* Lines 1265-1272: the Firestore staleness pass.
StaleFirestore ==
  /\ pc = "stale_fs"
  /\ IF succeeded_roasters = {}
       THEN UNCHANGED <<fs, hist>>
       ELSE /\ fs' = mark_stale_by_roaster(fs, SeenIdsFiltered, {})
            /\ hist' = [hist EXCEPT !.staleFs = DOMAIN SeenIdsFiltered]
  /\ pc' = "stale_sql"
  /\ UNCHANGED <<tried, dbCols, rows, clock, runVars, prev, raised, last>>

\* Lines 1265-1272, 699-701: the pass with the query or commit of some
\* sources raising (caught per source).
StaleFirestoreFail ==
  /\ pc = "stale_fs"
  /\ succeeded_roasters # {}
  /\ \E failing \in SUBSET DOMAIN SeenIdsFiltered :
       /\ failing # {}
       /\ fs' = mark_stale_by_roaster(fs, SeenIdsFiltered, failing)
       /\ hist' = [hist EXCEPT !.staleFs = DOMAIN SeenIdsFiltered, !.faulted = TRUE,
                               !.staleFsFailed = failing]
  /\ pc' = "stale_sql"
  /\ UNCHANGED <<tried, dbCols, rows, clock, runVars, prev, raised, last>>

\* Lines 1273-1278: the SQLite staleness pass.
StaleSqlite ==
  /\ pc = "stale_sql"
  /\ IF succeeded_roasters = {}
       THEN UNCHANGED <<rows, hist>>
       ELSE /\ rows' = mark_stale_sqlite(rows, SeenUrlsFiltered)
            /\ hist' = [hist EXCEPT !.staleSql = DOMAIN SeenUrlsFiltered]
  /\ pc' = "notify"
  /\ UNCHANGED <<fs, tried, dbCols, clock, runVars, prev, raised, last>>

\* Lines 1274-1278: the SQLite staleness pass raises; nothing is committed.
StaleSqliteFail ==
  /\ pc = "stale_sql"
  /\ succeeded_roasters # {}
  /\ SeenUrlsFiltered # EmptyMap
  /\ hist' = [hist EXCEPT !.staleSql = DOMAIN SeenUrlsFiltered, !.faulted = TRUE,
                          !.staleSqlFailed = TRUE]
  /\ pc' = "notify"
  /\ UNCHANGED <<stores, clock, runVars, prev, raised, last>>

\* notify_ntfy(lines, env, deep_id, title, deep_ids): nothing is sent without
\* a topic; with a site configured the Click header takes the first 6 ids;
\* an exception of the POST is caught and printed.
notify_ntfy(msg, deep_ids, topic, postOk) ==
  IF ~topic THEN [outcome |-> "no topic", sent |-> <<>>]
  ELSE [outcome |-> IF postOk THEN "posted" ELSE "failed",
        sent |-> <<[title |-> msg.title, lines |-> msg.body,
                    click |-> Take(deep_ids, 6)]>>]

\* A notification step that calls notify_ntfy whether or not there are new
\* items.
NotifyAlways ==
  /\ pc = "notify"
  /\ \E topic \in BOOLEAN, postOk \in BOOLEAN :
       hist' = [hist EXCEPT
         !.notified = @ + 1,
         !.msg = Composed(new_items),
         !.deep_ids = [i \in 1..Len(new_items) |-> new_items[i].id],
         !.delivery = notify_ntfy(build_ntfy_message(new_items),
                                  [i \in 1..Len(new_items) |-> new_items[i].id], topic, postOk),
         !.ret = Len(new_items)]
  /\ pc' = "done"
  /\ UNCHANGED <<stores, clock, runVars, prev, raised, last>>

\* Lines 1279-1287: with new items, the message is composed and handed to
\* notify_ntfy with the ids of the list; the run returns the list's length.
Notify ==
  /\ pc = "notify"
  /\ \E topic \in BOOLEAN, postOk \in BOOLEAN :
       hist' = [hist EXCEPT
         !.notified = IF new_items # <<>> THEN @ + 1 ELSE @,
         !.msg = IF new_items # <<>> THEN Composed(new_items) ELSE @,
         !.deep_ids = [i \in 1..Len(new_items) |-> new_items[i].id],
         !.delivery = IF new_items # <<>>
                        THEN notify_ntfy(build_ntfy_message(new_items),
                                         [i \in 1..Len(new_items) |-> new_items[i].id],
                                         topic, postOk)
                        ELSE @,
         !.ret = Len(new_items)]
  /\ pc' = "done"
  /\ UNCHANGED <<stores, clock, runVars, prev, raised, last>>

\* run_once returns; its locals are gone.  With track, what the run wrote to
\* Firestore is remembered for the next run's properties.
RunReturn(track) ==
  /\ pc = "done"
  /\ pc' = "idle"
  /\ existing' = EmptyMap
  /\ new_items' = <<>>
  /\ seen_ids_by_roaster' = EmptyMap
  /\ seen_urls_by_roaster' = EmptyMap
  /\ succeeded_roasters' = {}
  /\ roasters' = <<>>
  /\ cfg' = 0
  /\ yielded' = {}
  /\ p' = NoProduct
  /\ prev' = IF track THEN [ran |-> TRUE, wrote |-> {k[2] : k \in hist.remoteWrote}]
             ELSE NoPrev
  /\ hist' = NoHist
  /\ UNCHANGED <<stores, clock, raised, last>>

\* run_once with every store call succeeding (a missing column aside).
RunSteps(rs, listing, stocks, outcomes, track) ==
  \/ RunStart(rs) \/ FetchRaise \/ FetchOk \/ NextItem(listing, stocks, outcomes)
  \/ EndItems
  \/ PersistRemoteOk \/ PersistLocalOk \/ PersistLocalSchemaError
  \/ StaleFirestore \/ StaleSqlite \/ Notify \/ RunReturn(track)

\* The store calls of run_once raising.
RunFaults ==
  \/ PersistRemoteFail \/ PersistLocalFail \/ StaleFirestoreFail \/ StaleSqliteFail

\* ---------------------------------------------------------- simulate_new_drop
\* Lines 1315, 1317-1319: the rotating sample values of the fake products.
SimCountries == <<"Ethiopia", "Kenya", "Colombia", "Guatemala", "Testland">>
SimProfiles == <<"fruity", "floral", "chocolate", "nutty", "spice">>
SimNotes == <<"berry", "citrus", "caramel", "stone fruit", "tropical">>
SimPrices == <<"$18.00", "$19.00", "$20.00", "$21.00", "$22.00", "$23.00", "$24.00">>

\* Line 1314: the URL test-{ts}-{i+1}.
SimUrl(ts, i) == ts * 10 + i + 1

\* Lines 1311-1320: the i-th fake product.
FakeProduct(rs, ts, i) ==
  [Product(rs[(i % Len(rs)) + 1], "Test Drop", SimUrl(ts, i), SimPrices[(i % 7) + 1],
           TRUE, "")
     EXCEPT !["country"] = SimCountries[(i % 5) + 1],
            !["profile"] = SimProfiles[(i % 5) + 1],
            !["notes"] = SimNotes[(i % 5) + 1]]

\* Lines 1310-1330: the loop over items i..count-1.  st holds the stores and
\* the new-items list; stop is the item at which a write raises (count when
\* none does) and mode says which write: the function has no handler, so the
\* exception ends it with the writes made so far (done stays FALSE).
RECURSIVE SimLoop(_, _, _, _, _, _, _, _)
SimLoop(st, index, rs, ts, i, count, stop, mode) ==
  IF i >= count THEN [st EXCEPT !.done = TRUE]
  ELSE IF i = stop /\ mode = "remote" THEN st
  ELSE LET c == Classify(FakeProduct(rs, ts, i), index, ts)
           st1 == [st EXCEPT !.fs = upsert_firestore(st.fs, c.prod, c.first, c.last)]
       IN IF (i = stop /\ mode = "local")
             \/ ensure_row_sqlite_raises([cols |-> st.cols, rows |-> st.rows], c.prod)
            THEN st1
            ELSE SimLoop([st1 EXCEPT
                            !.rows = ensure_row_sqlite([cols |-> st.cols, rows |-> st.rows],
                                                       c.prod, c.first, c.last),
                            !.new_items = IF c.is_new
                                            THEN Append(@, [prod |-> c.prod, id |-> c.pid])
                                            ELSE @],
                         index, rs, ts, i + 1, count, stop, mode)

\* simulate_new_drop(count, roasters).
Simulate ==
  /\ pc = "idle"
  /\ \E count \in SimCounts, arg \in SimRoasterArgs, mode \in {"none", "remote", "local"} :
       \E stop \in IF mode = "none" THEN {count} ELSE 0..(count - 1) :
         LET db == db_connect([cols |-> dbCols, rows |-> rows])
             rs == IF arg = <<>> THEN SimDefaultRoasters ELSE arg
             st == SimLoop([fs |-> fs, cols |-> db.cols, rows |-> db.rows,
                            new_items |-> <<>>, done |-> FALSE],
                           load_firestore_index(fs), rs, clock, 0, count, stop, mode)
         IN /\ fs' = st.fs
            /\ dbCols' = st.cols
            /\ rows' = st.rows
            /\ raised' = IF st.done THEN "" ELSE "Exception"
            /\ last' = "simulate"
  /\ UNCHANGED <<tried, clock, pc, runVars, hist, prev>>

\* ------------------------------------------------------------------- sync
\* Lines 1184-1187: ensure_row_sqlite_from_doc for every streamed document.
RECURSIVE SyncDocs(_, _, _)
SyncDocs(db, coll, ids) ==
  IF ids = {} THEN db
  ELSE LET id == CHOOSE x \in ids : TRUE
       IN SyncDocs([cols |-> db.cols, rows |-> ensure_row_sqlite_from_doc(db, coll[id])],
                   coll, ids \ {id})

\* Lines 1193-1194: the in-stock URLs of each source in Firestore.
UrlsInStockByRoaster(coll) ==
  LET live == {id \in DOMAIN coll :
                 /\ Get(coll[id], "in_stock", FALSE)
                 /\ Get(coll[id], "url", 0) # 0
                 /\ Get(coll[id], "roaster", "") # ""}
  IN [r \in {coll[id]["roaster"] : id \in live} |->
        {coll[id]["url"] : id \in {x \in live : coll[x]["roaster"] = r}}]

\* An incremental resync: flags set for the ledger's URLs, none reset.
ResyncTriedNoReset(rws, ledger) ==
  LET turls == {Get(ledger[id], "url", 0) : id \in DOMAIN ledger} \ {0}
  IN [u \in DOMAIN rws |-> IF u \in turls THEN [rws[u] EXCEPT !["tried"] = 1] ELSE rws[u]]

\* Lines 1203-1208: every tried flag reset, then set for the ledger's URLs.
ResyncTried(rws, ledger) ==
  LET turls == {Get(ledger[id], "url", 0) : id \in DOMAIN ledger} \ {0}
  IN [u \in DOMAIN rws |-> [rws[u] EXCEPT !["tried"] = IF u \in turls THEN 1 ELSE 0]]

\* sync_sqlite_from_firestore; triedFails: streaming the ledger raises (caught).
SyncCall(triedFails) ==
  /\ pc = "idle"
  /\ LET db0 == db_connect([cols |-> dbCols, rows |-> rows])
         db1 == SyncDocs(db0, fs, DOMAIN fs)
         staled == mark_stale_sqlite(db1.rows, UrlsInStockByRoaster(fs))
     IN /\ dbCols' = db1.cols
        /\ rows' = IF triedFails THEN staled ELSE ResyncTried(staled, tried)
  /\ raised' = ""
  /\ last' = "sync"
  /\ UNCHANGED <<fs, tried, clock, pc, runVars, hist, prev>>

\* sync, over the outcome of reading the ledger.
Sync == \E triedFails \in BOOLEAN : SyncCall(triedFails)

\* ------------------------------------------------------------ tried ledger
\* The (notes, rating) arguments of mark-tried; rating None is the empty tuple.
MarkArgs == {[notes |-> "fruity", rating |-> <<4>>], [notes |-> "floral", rating |-> <<>>]}

\* A history that replaces what was recorded by the one new entry.
ArrayReplace(history, item) == <<item>>

\* firestore.ArrayUnion: the element is appended unless the array holds it.
ArrayUnion(history, item) ==
  IF \E i \in 1..Len(history) : history[i] = item THEN history ELSE Append(history, item)

\* A payload that leaves last_notes out even when notes are given.
TriedPayloadNoNotes(id, url, roaster, title, now, args) ==
  [f \in {"doc_id", "url", "roaster", "title", "last_tried_on"}
         \cup (IF args.rating # <<>> THEN {"last_rating"} ELSE {}) |->
     CASE f = "doc_id" -> id
       [] f = "url" -> url
       [] f = "roaster" -> roaster
       [] f = "title" -> title
       [] f = "last_tried_on" -> now
       [] OTHER -> args.rating[1]]

\* Lines 919-931: the fields mark_tried sets with merge.
TriedPayload(id, url, roaster, title, now, args) ==
  [f \in {"doc_id", "url", "roaster", "title", "last_tried_on"}
         \cup (IF args.notes # "" THEN {"last_notes"} ELSE {})
         \cup (IF args.rating # <<>> THEN {"last_rating"} ELSE {}) |->
     CASE f = "doc_id" -> id
       [] f = "url" -> url
       [] f = "roaster" -> roaster
       [] f = "title" -> title
       [] f = "last_tried_on" -> now
       [] f = "last_notes" -> args.notes
       [] OTHER -> args.rating[1]]

\* Lines 936-941: the history entry of one mark.
HistoryItem(now, args) ==
  [f \in {"tried_on"}
         \cup (IF args.notes # "" THEN {"notes"} ELSE {})
         \cup (IF args.rating # <<>> THEN {"rating"} ELSE {}) |->
     CASE f = "tried_on" -> now
       [] f = "notes" -> args.notes
       [] OTHER -> args.rating[1]]

\* UPDATE coffees SET tried=? WHERE url=?
SetTriedFlag(rws, url, flag) ==
  [u \in DOMAIN rws |-> IF u = url THEN [rws[u] EXCEPT !["tried"] = flag] ELSE rws[u]]

\* The history field of a tried record ([] when the field is absent).
History(rec) == Get(rec, "history", <<>>)

\* mark_tried(id, url, notes, rating) with an id or a URL given; 0 stands
\* for an argument not given.  lookupOk: a read of the main collection
\* succeeds; historyOk: the ArrayUnion update succeeds (its failure is
\* swallowed).
MarkTriedCall(id0, url0, args, lookupOk, historyOk) ==
  /\ pc = "idle"
  /\ id0 # 0 \/ url0 # 0
  /\ LET db == db_connect([cols |-> dbCols, rows |-> rows])
         id == IF id0 = 0 THEN product_id_from_url(url0) ELSE id0
         found == lookupOk /\ id \in DOMAIN fs
         data == IF found THEN fs[id] ELSE EmptyMap
         url == IF url0 # 0 THEN url0 ELSE Get(data, "url", 0)
         roaster == Get(data, "roaster", "")
         title == Get(data, "title", "")
         merged == FirestoreSet(tried, id,
                     TriedPayload(id, url, roaster, title, clock, args), TRUE)
         item == HistoryItem(clock, args)
     IN /\ Len(History(merged[id])) < MaxHistory
        /\ tried' = IF historyOk
                      THEN FirestoreSet(merged, id,
                             [f \in {"history"} |-> ArrayUnion(History(merged[id]), item)],
                             TRUE)
                      ELSE merged
        /\ dbCols' = db.cols
        /\ rows' = IF url # 0 THEN SetTriedFlag(db.rows, url, 1) ELSE db.rows
  /\ raised' = ""
  /\ last' = "mark-tried"
  /\ UNCHANGED <<fs, clock, pc, runVars, hist, prev>>

\* The identifiers and URLs the ledger commands are called with.
LedgerIds == {0, product_id_from_url(1)}
LedgerUrls == {0, 1}

\* mark_tried, over its arguments and the outcomes of its store calls.
MarkTriedWith(argset) ==
  \E id0 \in LedgerIds, url0 \in LedgerUrls, args \in argset,
     lookupOk \in BOOLEAN, historyOk \in BOOLEAN :
    MarkTriedCall(id0, url0, args, lookupOk, historyOk)

MarkTried == MarkTriedWith(MarkArgs)

\* mark_tried called with one fixed pair of notes and rating.
MarkTriedFruity == MarkTriedWith({[notes |-> "fruity", rating |-> <<4>>]})

\* A validation failure raised only after the tried document was deleted
\* and every local flag cleared.
RaiseValueErrorAfterWrite(cmd) ==
  /\ pc = "idle"
  /\ LET db == db_connect([cols |-> dbCols, rows |-> rows])
     IN /\ dbCols' = db.cols
        /\ rows' = [u \in DOMAIN db.rows |-> [db.rows[u] EXCEPT !["tried"] = 0]]
  /\ tried' = EmptyMap
  /\ raised' = "ValueError"
  /\ last' = cmd
  /\ UNCHANGED <<fs, clock, pc, runVars, hist, prev>>

\* Lines 888-891, 960-961: db_connect, then ValueError("Provide --id or
\* --url") when neither is given.
RaiseValueError(cmd) ==
  /\ pc = "idle"
  /\ LET db == db_connect([cols |-> dbCols, rows |-> rows])
     IN dbCols' = db.cols /\ rows' = db.rows
  /\ raised' = "ValueError"
  /\ last' = cmd
  /\ UNCHANGED <<fs, tried, clock, pc, runVars, hist, prev>>

\* mark_tried with neither id nor url.
MarkTriedInvalid == RaiseValueError("mark-tried")

\* An unmark that removes the item's local row instead of clearing its flag.
UnmarkTriedDeletingRow(id0, url0, lookupOk, deleteOk) ==
  /\ pc = "idle"
  /\ id0 # 0 \/ url0 # 0
  /\ LET db == db_connect([cols |-> dbCols, rows |-> rows])
         id == IF id0 = 0 THEN product_id_from_url(url0) ELSE id0
         found == lookupOk /\ id \in DOMAIN fs
         url == IF url0 # 0 THEN url0
                ELSE IF found THEN Get(fs[id], "url", 0) ELSE 0
     IN /\ tried' = IF deleteOk THEN Without(tried, {id}) ELSE tried
        /\ dbCols' = db.cols
        /\ rows' = Without(db.rows, {url})
  /\ raised' = ""
  /\ last' = "unmark-tried"
  /\ UNCHANGED <<fs, clock, pc, runVars, hist, prev>>

\* An unmark that clears the local flag and leaves the tried document.
UnmarkTriedFlagOnly(id0, url0, lookupOk, deleteOk) ==
  /\ pc = "idle"
  /\ id0 # 0 \/ url0 # 0
  /\ LET db == db_connect([cols |-> dbCols, rows |-> rows])
         id == IF id0 = 0 THEN product_id_from_url(url0) ELSE id0
         found == lookupOk /\ id \in DOMAIN fs
         url == IF url0 # 0 THEN url0
                ELSE IF found THEN Get(fs[id], "url", 0) ELSE 0
     IN /\ dbCols' = db.cols
        /\ rows' = IF url # 0 THEN SetTriedFlag(db.rows, url, 0) ELSE db.rows
  /\ raised' = ""
  /\ last' = "unmark-tried"
  /\ UNCHANGED <<fs, tried, clock, pc, runVars, hist, prev>>

\* unmark_tried(id, url) with an id or a URL given; deleteOk: the delete of
\* the tried document succeeds (its failure is caught and the local flag is
\* cleared anyway).
UnmarkTriedCall(id0, url0, lookupOk, deleteOk) ==
  /\ pc = "idle"
  /\ id0 # 0 \/ url0 # 0
  /\ LET db == db_connect([cols |-> dbCols, rows |-> rows])
         id == IF id0 = 0 THEN product_id_from_url(url0) ELSE id0
         found == lookupOk /\ id \in DOMAIN fs
         url == IF url0 # 0 THEN url0
                ELSE IF found THEN Get(fs[id], "url", 0) ELSE 0
     IN /\ tried' = IF deleteOk THEN Without(tried, {id}) ELSE tried
        /\ dbCols' = db.cols
        /\ rows' = IF url # 0 THEN SetTriedFlag(db.rows, url, 0) ELSE db.rows
  /\ raised' = ""
  /\ last' = "unmark-tried"
  /\ UNCHANGED <<fs, clock, pc, runVars, hist, prev>>

\* unmark_tried, over its arguments and the outcomes of its store calls.
UnmarkTried ==
  \E id0 \in LedgerIds, url0 \in LedgerUrls, lookupOk \in BOOLEAN, deleteOk \in BOOLEAN :
    UnmarkTriedCall(id0, url0, lookupOk, deleteOk)

\* unmark_tried with neither id nor url.
UnmarkTriedInvalid == RaiseValueError("unmark-tried")

\* list_tried(limit): reads the tried collection and prints; streamOk: the
\* read succeeds (its failure is not caught).
ListTried ==
  /\ pc = "idle"
  /\ \E streamOk \in BOOLEAN : raised' = IF streamOk THEN "" ELSE "Exception"
  /\ last' = "list-tried"
  /\ UNCHANGED <<stores, clock, pc, runVars, hist, prev>>

\* clear_local_sqlite: the database file and its sidecars are removed; a
\* file that cannot be removed is left (the OSError is caught).
clear_local_sqlite(db, removeOk) ==
  IF removeOk THEN [cols |-> {}, rows |-> EmptyMap] ELSE db

\* clear_datastores(force): when confirmed, every document of the main
\* collection is deleted (fsOk: without raising; a failure is caught) and
\* the local database file is removed.  The tried collection is kept.
ClearDatastores ==
  /\ pc = "idle"
  /\ \E confirmed \in BOOLEAN, fsOk \in BOOLEAN, removeOk \in BOOLEAN :
       LET db == clear_local_sqlite([cols |-> dbCols, rows |-> rows], confirmed /\ removeOk)
       IN /\ fs' = IF confirmed /\ fsOk THEN EmptyMap ELSE fs
          /\ dbCols' = db.cols
          /\ rows' = db.rows
  /\ raised' = ""
  /\ last' = "clear"
  /\ UNCHANGED <<tried, clock, pc, runVars, hist, prev>>

\* clear_sqlite_only(force): when confirmed, the local database file is
\* removed.
ClearSqliteOnly ==
  /\ pc = "idle"
  /\ \E confirmed \in BOOLEAN, removeOk \in BOOLEAN :
       LET db == clear_local_sqlite([cols |-> dbCols, rows |-> rows], confirmed /\ removeOk)
       IN dbCols' = db.cols /\ rows' = db.rows
  /\ raised' = ""
  /\ last' = "clear-db"
  /\ UNCHANGED <<fs, tried, clock, pc, runVars, hist, prev>>

\* clear_tried(force): every tried document deleted when confirmed; the
\* batch delete raising is not caught.
ClearTried ==
  /\ pc = "idle"
  /\ \E confirmed \in BOOLEAN, deleteOk \in BOOLEAN :
       /\ tried' = IF confirmed /\ deleteOk THEN EmptyMap ELSE tried
       /\ raised' = IF confirmed /\ ~deleteOk THEN "Exception" ELSE ""
       /\ last' = "clear-tried"
  /\ UNCHANGED <<fs, dbCols, rows, clock, pc, runVars, hist, prev>>

\* ------------------------------------------------------------ specifications
\* Two sources, every store call succeeding, and sync.
Next ==
  \/ Tick
  \/ RunSteps(ROASTERS, Listing2, {TRUE}, {ParsedDetails}, FALSE)
  \/ Sync

Spec == Init /\ [][Next]_vars

\* One source, every failure of the store calls.
NextFaults ==
  \/ Tick
  \/ RunSteps(<<"r1">>, Listing2, BOOLEAN, {ParsedDetails}, FALSE)
  \/ RunFaults

SpecFaults == Init /\ [][NextFaults]_vars

\* Two sources and every failure of the store calls, all within one second
\* of the clock.  A run that has started goes on: run_once
\* is sequential code whose calls return or raise.
NextFair ==
  \/ RunSteps(ROASTERS, Listing2, {TRUE}, {ParsedDetails}, FALSE)
  \/ RunFaults

SpecFair == Init /\ [][NextFair]_vars /\ WF_vars(pc # "idle" /\ NextFair)

\* Two sources with one product each, and every failure a run survives: of
\* the listing fetch, the enrichment, the store calls, the staleness passes
\* and the delivery.  A run that has started goes on.
NextTerm ==
  \/ RunSteps(ROASTERS, ListingEach, {TRUE}, DetailOutcomes, FALSE)
  \/ RunFaults

SpecTerm == Init /\ [][NextTerm]_vars /\ WF_vars(pc # "idle" /\ NextTerm)

\* One source with one product, every failure of the store calls, and the
\* simulation.
NextOrder ==
  \/ Tick
  \/ RunSteps(<<"r1">>, Listing1, BOOLEAN, {ParsedDetails}, FALSE)
  \/ RunFaults
  \/ Simulate

SpecOrder == Init /\ [][NextOrder]_vars

\* One source run again and again, what the run before wrote remembered.
NextRerun ==
  \/ Tick
  \/ RunSteps(<<"r1">>, Listing2, BOOLEAN, {ParsedDetails}, TRUE)
  \/ PersistRemoteFail

SpecRerun == Init /\ [][NextRerun]_vars

\* One source with three products, and sync.
NextStale ==
  \/ Tick
  \/ RunSteps(<<"r1">>, Listing3, {TRUE}, {ParsedDetails}, FALSE)
  \/ Sync

SpecStale == Init /\ [][NextStale]_vars

\* Marking and unmarking around runs over one source with one item.
NextLedger ==
  \/ Tick
  \/ RunSteps(<<"r1">>, Listing1, {TRUE}, {ParsedDetails}, FALSE)
  \/ MarkTried \/ UnmarkTried

SpecLedger == Init /\ [][NextLedger]_vars

\* Every command, the destructive ones included, around runs over one source
\* with one item, all within one second of the clock.
NextMaint ==
  \/ RunSteps(<<"r1">>, Listing1, {TRUE}, {ParsedDetails}, FALSE)
  \/ Simulate \/ Sync
  \/ MarkTriedFruity \/ UnmarkTried \/ ListTried
  \/ ClearDatastores \/ ClearSqliteOnly

SpecMaint == Init /\ [][NextMaint]_vars

\* The database opened, and nothing else done, on tables of earlier builds
\* (mark-tried and unmark-tried without arguments open it and stop).
NextSchema == MarkTriedInvalid \/ UnmarkTriedInvalid

SpecSchema == InitLegacy /\ [][NextSchema]_vars

\* The program starts on a table with an image column holding up to three
\* rows, each of r1 or r2, in stock or not; the remote store is empty.
InitTables ==
  /\ fs = EmptyMap
  /\ tried = EmptyMap
  /\ dbCols = db_connect([cols |-> SCHEMA \cup {"image"}, rows |-> EmptyMap]).cols
  /\ \E present \in SUBSET {1, 2, 3} :
       \E src \in [present -> {"r1", "r2"}], stock \in [present -> BOOLEAN] :
         rows = [u \in present |->
                   SqlInsert(dbCols, ProductRow(Product(src[u], "Dark Roast", u, "$16.00",
                                                        stock[u], ""), 1, 1))]
  /\ clock = 1
  /\ pc = "idle"
  /\ existing = EmptyMap
  /\ new_items = <<>>
  /\ seen_ids_by_roaster = EmptyMap
  /\ seen_urls_by_roaster = EmptyMap
  /\ succeeded_roasters = {}
  /\ roasters = <<>>
  /\ cfg = 0
  /\ yielded = {}
  /\ p = NoProduct
  /\ hist = NoHist
  /\ prev = NoPrev
  /\ raised = ""
  /\ last = ""

\* mark_stale_sqlite(conn, seen_by_roaster) applied to the table, over maps
\* from some of the sources to sets of URLs, the empty set included; the
\* table before the call and the returned total are remembered.
MarkStaleSqlite ==
  /\ pc = "idle"
  /\ \E srcs \in SUBSET {"r1", "r2"} :
       \E seen_by \in [srcs -> SUBSET {1, 2, 3}] :
         /\ rows' = mark_stale_sqlite(rows, seen_by)
         /\ seen_urls_by_roaster' = seen_by
         /\ hist' = [NoHist EXCEPT !.rows0 = rows,
                                   !.ret = mark_stale_sqlite_total(rows, seen_by)]
  /\ last' = "mark_stale_sqlite"
  /\ UNCHANGED <<fs, tried, dbCols, clock, pc, existing, new_items, seen_ids_by_roaster,
                 succeeded_roasters, roasters, cfg, yielded, p, prev, raised>>

NextTables == MarkStaleSqlite

SpecTables == InitTables /\ [][NextTables]_vars

\* One source with two products, the enrichment of an item failing or not,
\* every store call succeeding.
NextEnrich ==
  \/ Tick
  \/ RunSteps(<<"r1">>, Listing2, {TRUE}, DetailOutcomes, FALSE)

SpecEnrich == Init /\ [][NextEnrich]_vars

\* The commands that write the collection or the table, with the item
\* writes of a run failing, all within one second of the clock.
NextMirror ==
  \/ RunSteps(<<"r1">>, Listing1, {TRUE}, {ParsedDetails}, FALSE)
  \/ PersistRemoteFail \/ PersistLocalFail
  \/ Simulate \/ Sync
  \/ ClearDatastores \/ ClearSqliteOnly

SpecMirror == Init /\ [][NextMirror]_vars

\* Runs over one source with one product whose SQLite write may fail,
\* simulations and syncs, the clock advancing.
NextTime ==
  \/ Tick
  \/ RunSteps(<<"r1">>, Listing1, {TRUE}, {ParsedDetails}, FALSE)
  \/ PersistLocalFail
  \/ Simulate \/ Sync

SpecTime == Init /\ [][NextTime]_vars

\* The composer applied to new-items lists of one to MaxNew items over one
\* to ten sources.
Compose ==
  /\ pc = "idle"
  /\ \E n \in 1..MaxNew, m \in 1..Len(SourceOrder), rev \in BOOLEAN, gaps \in BOOLEAN :
       hist' = [NoHist EXCEPT !.msg = Composed(ComposerInput(n, m, rev, gaps))]
  /\ UNCHANGED <<stores, clock, pc, runVars, prev, raised, last>>

NextCompose == Compose

SpecCompose == Init /\ [][NextCompose]_vars

\* Marking, unmarking and clearing the ledger, the validation failures and
\* sync, around runs over one source with one item.
NextUnmark ==
  \/ Tick
  \/ RunSteps(<<"r1">>, Listing1, {TRUE}, {ParsedDetails}, FALSE)
  \/ MarkTriedFruity \/ MarkTriedInvalid \/ UnmarkTried \/ UnmarkTriedInvalid \/ ClearTried
  \/ Sync

SpecUnmark == Init /\ [][NextUnmark]_vars

\* ------------------------------------------------------------------ claims
\* The URLs the adapters yielded in the current run.
ObsUrls == {o.url : o \in hist.obs}

\* The URLs a source yielded in the current run.
ObsUrlsOf(r) == {o.url : o \in {x \in hist.obs : x.roaster = r}}

\* How often an identifier occurs in the new-items list.
Occurrences(id) == Cardinality({i \in 1..Len(new_items) : new_items[i].id = id})

\* The documents / rows a source had when the run started.
DocsOf(r) == {id \in DOMAIN hist.fs0 : Get(hist.fs0[id], "roaster", "") = r}
RowsOf(r) == {u \in DOMAIN hist.rows0 : hist.rows0[u]["roaster"] = r}

\* C1: a run that observes only items the run before it wrote to the remote
\* store classifies none of them as new, leaves the first_seen of each in the
\* remote store as it was, and sets the last_seen of each item it writes to
\* the timestamp taken for that item in this run.
C1_IdempotentRerun ==
  (pc = "done" /\ prev.ran /\ ObsUrls \subseteq prev.wrote) =>
    /\ new_items = <<>>
    /\ \A o \in hist.obs :
         LET id == product_id_from_url(o.url)
         IN /\ id \in DOMAIN fs /\ id \in DOMAIN hist.fs0
            /\ fs[id]["first_seen"] = hist.fs0[id]["first_seen"]
            /\ <<o.roaster, o.url>> \in hist.remoteWrote =>
                 fs[id]["last_seen"] = hist.lastNow[o.url]

\* C1 witness: a second run over the same items has finished, every write
\* made, and an item's last_seen has advanced past its first_seen.
C1_Witness ==
  /\ pc = "done" /\ prev.ran /\ ObsUrls # {} /\ ObsUrls = prev.wrote
  /\ hist.remoteWrote = {<<o.roaster, o.url>> : o \in hist.obs}
  /\ \E u \in ObsUrls :
       LET id == product_id_from_url(u)
       IN fs[id]["last_seen"] > hist.fs0[id]["last_seen"]
          /\ fs[id]["first_seen"] < fs[id]["last_seen"]

\* C2: when no store call fails for a reason of the environment, every
\* observed item whose identifier is absent from the index loaded at the
\* start of the run is in the new-items list exactly once at the end of the
\* run, and an item the run before wrote is not in it.
C2_NewItemOnce ==
  (pc = "done" /\ ~hist.faulted) =>
    \A o \in hist.obs :
      LET id == product_id_from_url(o.url)
      IN /\ id \notin DOMAIN existing => Occurrences(id) = 1
         /\ (prev.ran /\ o.url \in prev.wrote) => Occurrences(id) = 0

\* C3: a source stored {1, 2, 3} before the run and the run observes {1, 2}
\* in stock: at the end of the run 3 is out of stock in both stores and 1 and
\* 2 are in stock.
C3_Staleness ==
  (/\ pc = "done"
   /\ {hist.fs0[id]["url"] : id \in DocsOf("r1")} = {1, 2, 3}
   /\ ObsUrlsOf("r1") = {1, 2}) =>
    /\ fs[product_id_from_url(3)]["in_stock"] = FALSE
    /\ 3 \in DOMAIN rows => rows[3]["in_stock"] = 0
    /\ \A u \in {1, 2} :
         /\ fs[product_id_from_url(u)]["in_stock"] = TRUE
         /\ u \in DOMAIN rows => rows[u]["in_stock"] = 1

\* C4: at the end of a run, every row the local mirror held at the start of
\* the run for a source that was fetched and parsed and yielded no item has
\* in_stock = 0.
C4_EmptyResultStale ==
  pc = "done" =>
    \A r \in succeeded_roasters :
      ObsUrlsOf(r) = {} =>
        \A u \in RowsOf(r) : u \in DOMAIN rows /\ rows[u]["in_stock"] = 0

\* C5 (as stated): at the end of a run, every record of a source whose fetch
\* or parse raised is identical in both stores to what it was at the start.
C5_FailedSourceUntouched ==
  pc = "done" =>
    \A r \in hist.raised :
      /\ \A id \in DocsOf(r) : id \in DOMAIN fs /\ fs[id] = hist.fs0[id]
      /\ \A u \in RowsOf(r) : u \in DOMAIN rows /\ rows[u] = hist.rows0[u]

\* C5 (amended): at the end of a run, every record of a source whose fetch or
\* parse raised, whose URL no source yielded in the run, is identical in both
\* stores to what it was at the start; no staleness pass ran for that source;
\* and every source of the run was attempted.
C5_FailedSourceUntouchedUnlessShared ==
  pc = "done" =>
    /\ \A r \in hist.raised :
         /\ \A id \in DocsOf(r) :
              Get(hist.fs0[id], "url", 0) \notin ObsUrls =>
                id \in DOMAIN fs /\ fs[id] = hist.fs0[id]
         /\ \A u \in RowsOf(r) :
              u \notin ObsUrls => u \in DOMAIN rows /\ rows[u] = hist.rows0[u]
         /\ r \notin hist.staleFs /\ r \notin hist.staleSql
    /\ hist.raised \cup succeeded_roasters = {roasters[i] : i \in 1..Len(roasters)}

\* C5 witness: the first source raised, it had records in both stores, and
\* the second source was processed and had a staleness pass.
C5_Witness ==
  /\ pc = "done" /\ hist.raised = {"r1"}
  /\ DocsOf("r1") # {} /\ RowsOf("r1") # {}
  /\ ObsUrlsOf("r2") # {} /\ "r2" \in hist.staleFs /\ "r2" \in hist.staleSql

\* C6: no step changes the first_seen of a row the local mirror holds.
C6_LocalFirstSeenFixed ==
  [][\A u \in DOMAIN rows \cap DOMAIN rows' :
        rows'[u]["first_seen"] = rows[u]["first_seen"]]_vars

\* C7: in a run, the local-mirror write of an item is attempted only for an
\* item whose remote write succeeded in that run, so the items written to
\* the local mirror are among those written to the remote store; and, runs
\* and simulations being the only writers, every URL the local mirror holds
\* has its document in the remote store.
C7_RemoteBeforeLocal ==
  /\ hist.localWrote \subseteq hist.remoteWrote
  /\ pc = "local" => ItemKey \in hist.remoteWrote
  /\ \A k \in hist.failed \ hist.remoteWrote : k \notin hist.localWrote
  /\ \A u \in DOMAIN rows : product_id_from_url(u) \in DOMAIN fs

\* C7 witness: a run has ended in which the remote write of the item raised
\* and the local mirror, which holds a simulated product, is as it was when
\* the run started.
C7_Witness ==
  /\ pc = "done"
  /\ hist.failed \ hist.remoteWrote # {}
  /\ hist.localWrote = {}
  /\ rows = hist.rows0
  /\ \E u \in DOMAIN rows : u \notin Listing1["r1"]

\* C8: a step in which the write of an item raises leaves the new-items list
\* and the seen-sets as they were and returns to the item loop; and no item
\* whose write raised is in the new-items list or in its source's seen-sets.
C8_PersistFailureSkipsItem ==
  [][/\ (hist.failed \subseteq hist'.failed /\ hist'.failed # hist.failed) =>
          /\ pc' = "items"
          /\ new_items' = new_items
          /\ seen_ids_by_roaster' = seen_ids_by_roaster
          /\ seen_urls_by_roaster' = seen_urls_by_roaster
     /\ \A k \in hist'.failed :
          /\ k[2] \notin Get(seen_urls_by_roaster', k[1], {})
          /\ product_id_from_url(k[2]) \notin Get(seen_ids_by_roaster', k[1], {})
          /\ \A i \in 1..Len(new_items') : new_items'[i].prod.url # k[2]]_vars

\* C8 witness: a run has ended in which the write of one item raised and
\* another item was recorded as new.
C8_Witness ==
  /\ pc = "done"
  /\ hist.failed # {}
  /\ new_items # <<>>
  /\ hist.localWrote # {}

\* C9: once both staleness passes are over, each has covered exactly the
\* sources whose fetch and parse completed.
C9_StalenessCoverage ==
  pc \in {"notify", "done"} =>
    /\ hist.staleFs = succeeded_roasters
    /\ hist.staleSql = succeeded_roasters

\* seq1 is an initial segment of seq2.
IsPrefix(seq1, seq2) ==
  /\ Len(seq1) <= Len(seq2)
  /\ \A i \in 1..Len(seq1) : seq1[i] = seq2[i]

\* C10: in every step, the history of a tried record that exists before and
\* after the step is, before the step, an initial segment of what it is
\* after: never shorter, no entry rewritten or moved.
C10_HistoryAppendOnly ==
  [][\A id \in DOMAIN tried \cap DOMAIN tried' :
        IsPrefix(History(tried[id]), History(tried'[id]))]_vars

\* C10 witness: a record marked twice holds two history entries.
C10_Witness ==
  \E id \in DOMAIN tried :
    /\ Len(History(tried[id])) = 2
    /\ History(tried[id])[1] # History(tried[id])[2]

\* Lines 893-894, 962-963: the identifier a ledger command works on.
LedgerId(id0, url0) == IF id0 = 0 THEN product_id_from_url(url0) ELSE id0

\* The history of the tried record of an identifier ([] when there is none).
HistoryOf(ledger, id) == IF id \in DOMAIN ledger THEN History(ledger[id]) ELSE <<>>

\* C11: every mark call whose store calls all succeed leaves the history of
\* the item's tried record exactly one entry longer than it was (nothing
\* before the first mark).
C11_MarkAppendsOne ==
  [][\A id0 \in LedgerIds, url0 \in LedgerUrls, args \in MarkArgs, lookupOk \in BOOLEAN :
       MarkTriedCall(id0, url0, args, lookupOk, TRUE) =>
         Len(HistoryOf(tried', LedgerId(id0, url0)))
           = Len(HistoryOf(tried, LedgerId(id0, url0))) + 1]_vars

\* The last_rating of a tried record, as the tuple mark-tried takes it.
LastRating(rec) == IF "last_rating" \in DOMAIN rec THEN <<rec["last_rating"]>> ELSE <<>>

\* A step is a mark call, all store calls succeeding, of an item whose
\* record holds one history entry with notes other than the call's.
SecondMark(id0, url0, args, lookupOk) ==
  /\ last' = "mark-tried"
  /\ Len(HistoryOf(tried, LedgerId(id0, url0))) = 1
  /\ Get(HistoryOf(tried, LedgerId(id0, url0))[1], "notes", "") # args.notes
  /\ MarkTriedCall(id0, url0, args, lookupOk, TRUE)

\* After the second mark: two entries, the earlier one first and untouched,
\* the later one the call's own, not earlier in time.
TwoEntriesInOrder(id, args) ==
  LET h == HistoryOf(tried', id)
  IN /\ Len(h) = 2
     /\ h[1] = HistoryOf(tried, id)[1]
     /\ h[2] = HistoryItem(clock, args)
     /\ h[1]["tried_on"] <= h[2]["tried_on"]

TriedFlags(rws) == [u \in DOMAIN rws |-> Get(rws[u], "tried", 0)]

\* C13: mark-tried or unmark-tried called with neither an id nor a URL ends
\* with ValueError and leaves the tried collection and the local tried flags
\* exactly as they were.
C13_ValidationFailureWritesNothing ==
  [][(raised' = "ValueError" /\ (MarkTriedInvalid \/ UnmarkTriedInvalid)) =>
       /\ raised' = "ValueError"
       /\ tried' = tried
       /\ TriedFlags(rows') = TriedFlags(rows)]_vars

\* C13 witness: a call ended with ValueError while the tried collection holds
\* a record and a local row is flagged tried.
C13_Witness ==
  /\ raised = "ValueError"
  /\ tried # EmptyMap
  /\ \E u \in DOMAIN rows : Get(rows[u], "tried", 0) = 1

UnmarkUrl(id0, url0, lookupOk) ==
  IF url0 # 0 THEN url0
  ELSE IF lookupOk /\ LedgerId(id0, url0) \in DOMAIN fs
         THEN Get(fs[LedgerId(id0, url0)], "url", 0)
         ELSE 0

FlagMatchesLedger(rws, ledger, u) ==
  (Get(rws[u], "tried", 0) = 1) <=> (\E id \in DOMAIN ledger : Get(ledger[id], "url", 0) = u)

C16_PrimaryIsFirstEncountered ==
  hist.msg.input # <<>> => hist.msg.out.deep_id = <<hist.msg.input[1].id>>

\* C16 witness: a message over two sources whose first item is of the source
\* that sorts second: the first body line is the other source's, the primary
\* identifier is the first item's.
C16_Witness ==
  /\ Len(hist.msg.input) = 3
  /\ hist.msg.input[1].prod.roaster = "Bolt"
  /\ hist.msg.input[2].prod.roaster = "Acme"
  /\ hist.msg.out.body[1] = RoasterLine(hist.msg.input, "Acme")
  /\ hist.msg.out.deep_id = <<hist.msg.input[1].id>>

\* The sources of the composed list, and whether it is the list of several
\* items of one source, or of items of several sources.
MsgSources == {hist.msg.input[i].prod.roaster : i \in 1..Len(hist.msg.input)}
MsgSingleSource == Len(hist.msg.input) >= 2 /\ Cardinality(MsgSources) = 1
MsgMultiSource == Cardinality(MsgSources) >= 2

\* The first k lines, then "+{hidden} more..." when lines were left out.
Capped(lines, k) ==
  IF Len(lines) > k
    THEN Append(SubSeq(lines, 1, k), "+" \o ToString(Len(lines) - k) \o " more" \o ELLIPSIS)
    ELSE lines

\* The body the single-source rule describes: a bullet line per item in list
\* order, "{title} -- {price}" or "{title}" alone, at most 8 of them.
SingleSourceBody ==
  Capped([i \in 1..Len(hist.msg.input) |->
            LET q == hist.msg.input[i].prod
            IN IF q.price_text = "" THEN BULLET \o " " \o q.title
               ELSE BULLET \o " " \o q.title \o " " \o EM_DASH \o " " \o q.price_text], 8)

\* C17 (as stated): for N >= 2 new items of one source the title is
\* "{N} new items from {source}" and the body is one bullet line per item in
\* list order, capped at 8 lines and a "+{N-8} more..." line when N > 8.
C17_SingleSourceMessage ==
  MsgSingleSource =>
    /\ hist.msg.out.title = ToString(Len(hist.msg.input)) \o " new items from "
                              \o hist.msg.input[1].prod.roaster
    /\ hist.msg.out.body = SingleSourceBody

\* C17 (amended): for N >= 2 new items of one source the title is
\* "{N} new coffees from {source}" and the body is one bullet line per item
\* in list order, capped at 8 lines and a "+{N-8} more..." line when N > 8.
C17_SingleSourceMessageCoffees ==
  MsgSingleSource =>
    /\ hist.msg.out.title = ToString(Len(hist.msg.input)) \o " new coffees from "
                              \o hist.msg.input[1].prod.roaster
    /\ hist.msg.out.body = SingleSourceBody

\* C17 witness: ten items of Acme, every second one without a price: eight
\* item lines and the marker for the two left out.
C17_Witness ==
  /\ Len(hist.msg.input) = 10 /\ MsgSources = {"Acme"}
  /\ hist.msg.out.title = "10 new coffees from Acme"
  /\ Len(hist.msg.out.body) = 9
  /\ hist.msg.out.body[1] = "(bullet) T1 (em dash) $1"
  /\ hist.msg.out.body[2] = "(bullet) T2"
  /\ hist.msg.out.body[9] = "+2 more(ellipsis)"

\* The body the multi-source rule describes: a bullet line per source in
\* alphabetical order with its first two titles and "+{K} more" for the
\* rest, at most 8 lines.
MultiSourceBody ==
  LET srcs == SelectSeq(SourceOrder, LAMBDA r : r \in MsgSources)
      line(r) ==
        LET mine == SelectSeq(hist.msg.input, LAMBDA it : it.prod.roaster = r)
            head == IF Len(mine) = 1 THEN mine[1].prod.title
                    ELSE mine[1].prod.title \o "; " \o mine[2].prod.title
        IN BULLET \o " " \o r \o ": " \o head
             \o (IF Len(mine) > 2 THEN "; +" \o ToString(Len(mine) - 2) \o " more" ELSE "")
  IN Capped([i \in 1..Len(srcs) |-> line(srcs[i])], 8)

\* C18 (as stated): for new items of M >= 2 sources the title is
\* "New drops: {N} items from {M} sources" and the body is one line per
\* source in alphabetical order with the source's first two titles and a
\* "+{K} more" suffix, capped at 8 lines and a marker line.
C18_MultiSourceMessage ==
  MsgMultiSource =>
    /\ hist.msg.out.title = "New drops: " \o ToString(Len(hist.msg.input)) \o " items from "
                              \o ToString(Cardinality(MsgSources)) \o " sources"
    /\ hist.msg.out.body = MultiSourceBody

\* C18 (amended): for new items of M >= 2 sources the title is
\* "New drops: {N} coffees from {M} roasters" and the body is one line per
\* source in alphabetical order with the source's first two titles and a
\* "+{K} more" suffix, capped at 8 lines and a marker line.
C18_MultiSourceMessageCoffees ==
  MsgMultiSource =>
    /\ hist.msg.out.title = "New drops: " \o ToString(Len(hist.msg.input)) \o " coffees from "
                              \o ToString(Cardinality(MsgSources)) \o " roasters"
    /\ hist.msg.out.body = MultiSourceBody

\* C18 witness: five items met as Bolt, Acme, Bolt, Acme, Bolt: Acme's line
\* comes first, Bolt's shows two titles and one more.
C18_Witness ==
  /\ Len(hist.msg.input) = 5
  /\ hist.msg.input[1].prod.roaster = "Bolt"
  /\ hist.msg.out.title = "New drops: 5 coffees from 2 roasters"
  /\ hist.msg.out.body = <<"(bullet) Acme: T2; T4", "(bullet) Bolt: T1; T3; +1 more">>

\* C19: a run calls notify_ntfy once when its new-items list is not empty
\* and not at all when it is empty, before the notification step never; and
\* whatever the call's outcome the run ends with no exception and returns
\* the length of the list.
C19_DeliveryOncePerRun ==
  /\ pc # "done" => hist.notified = 0 /\ hist.delivery.outcome = "not called"
  /\ pc = "done" =>
       /\ hist.notified = (IF new_items # <<>> THEN 1 ELSE 0)
       /\ new_items = <<>> <=> hist.delivery.outcome = "not called"
       /\ raised = ""
       /\ hist.ret = Len(new_items)

\* C19 witness: a run with new items has ended after one call of notify_ntfy
\* whose POST raised.
C19_Witness ==
  /\ pc = "done" /\ new_items # <<>>
  /\ hist.notified = 1 /\ hist.delivery.outcome = "failed"
  /\ raised = "" /\ hist.ret = Len(new_items)

\* The position of a source in the list the run was called with.
SourceIndex(r) == CHOOSE i \in 1..Len(roasters) : roasters[i] = r

\* The ids of the new-items list, in list order.
IdsOf(news) == [i \in 1..Len(news) |-> news[i].id]

\* C20: the new-items list grows only at its end, by the item just yielded
\* by the source being processed, and sources are processed in the order
\* given, so the list is in first-encountered order; the notification step
\* hands the composer this list and notify_ntfy its ids, order unchanged.
C20_EncounterOrder ==
  [][/\ (new_items' # new_items /\ new_items' # <<>>) =>
          /\ new_items' = Append(new_items, [prod |-> p.prod, id |-> p.pid])
          /\ p.prod.roaster = roasters[cfg]
          /\ p.prod.url \in yielded
          /\ \A i \in 1..Len(new_items) :
               SourceIndex(new_items[i].prod.roaster) <= cfg
     /\ (pc \notin {"idle", "done"} /\ pc' \notin {"idle", "done"}) => cfg' \in {cfg, cfg + 1}
     /\ (pc = "notify" /\ pc' = "done") =>
          /\ new_items' = new_items
          /\ hist'.deep_ids = IdsOf(new_items)
          /\ new_items # <<>> =>
               /\ hist'.msg.input = new_items
               /\ hist'.delivery.sent # <<>> =>
                    hist'.delivery.sent[1].click = Take(IdsOf(new_items), 6)]_vars

\* C20 witness: a run over two sources has ended with three new items, the
\* two of the first source before the one of the second, and the composer
\* and notify_ntfy were given them in this order.
C20_Witness ==
  /\ pc = "done" /\ Len(new_items) = 3
  /\ [i \in 1..3 |-> new_items[i].prod.roaster] = <<"r1", "r1", "r2">>
  /\ new_items[1].id # new_items[2].id
  /\ hist.msg.input = new_items
  /\ hist.deep_ids = IdsOf(new_items)
  /\ hist.delivery.outcome = "posted"
  /\ hist.delivery.sent[1].click = IdsOf(new_items)

\* C21: the identifier of an item is a function of its URL alone: every
\* identifier the run computed with Product.id() is what product_id_from_url
\* gives for the URL, for the item in hand, the new-items list and the ids
\* of the documents; and two listed items with one URL have one identifier
\* whatever their source.
C21_IdentityStable ==
  /\ (p # NoProduct /\ p.pid # 0) => p.pid = product_id_from_url(p.prod.url)
  /\ \A i \in 1..Len(new_items) :
       /\ new_items[i].id = product_id_from_url(new_items[i].prod.url)
       /\ new_items[i].id = Product_id(new_items[i].prod)
       /\ \A j \in 1..Len(new_items) :
            new_items[i].prod.url = new_items[j].prod.url => new_items[i].id = new_items[j].id
  /\ \A id \in DOMAIN fs : id = product_id_from_url(fs[id]["url"])

\* C21 witness: the new-items list holds the same URL listed by two sources,
\* under one identifier.
C21_Witness ==
  \E i, j \in 1..Len(new_items) :
    /\ new_items[i].prod.roaster # new_items[j].prod.roaster
    /\ new_items[i].prod.url = new_items[j].prod.url
    /\ new_items[i].id = new_items[j].id
    /\ new_items[i].id \in DOMAIN fs

\* C22: a step that removes a document from the main collection or a row
\* from the local table is a step of clear or of clear-db; run, simulate,
\* sync, mark-tried, unmark-tried and list-tried remove none.
C22_DeletedOnlyByClear ==
  [][(\/ ~(DOMAIN fs \subseteq DOMAIN fs')
      \/ ~(DOMAIN rows \subseteq DOMAIN rows')) =>
       (ClearDatastores \/ ClearSqliteOnly)]_vars

\* C22 witness: clear has just run: the main collection and the local table
\* are empty, and the tried collection still holds the record of an item
\* whose title was read from its main document when it was marked.
C22_Witness ==
  /\ last = "clear" /\ fs = EmptyMap /\ dbCols = {} /\ rows = EmptyMap
  /\ \E id \in DOMAIN tried : Get(tried[id], "title", "") = "Dark Roast"

\* C23: opening the database adds exactly the missing columns, keeps every
\* row and every value of a column the row already had, gives an added
\* column its default (price: the value of the legacy price_text), and a
\* second opening changes neither the columns nor any row.
C23_MigrationAdditiveIdempotent ==
  [][(raised' = "ValueError" /\ (MarkTriedInvalid \/ UnmarkTriedInvalid)) =>
       /\ dbCols' = dbCols \cup MissingColumns(dbCols)
       /\ DOMAIN rows' = DOMAIN rows
       /\ \A u \in DOMAIN rows :
            /\ \A c \in DOMAIN rows[u] : rows'[u][c] = rows[u][c]
            /\ \A c \in DOMAIN rows'[u] \ DOMAIN rows[u] :
                 rows'[u][c] = IF c = "price" /\ "price_text" \in dbCols
                                 THEN rows[u]["price_text"]
                                 ELSE ColumnDefault(c)
       /\ db_connect([cols |-> dbCols', rows |-> rows']) = [cols |-> dbCols', rows |-> rows']]_vars

\* C23 witness: the database was opened on a table that had price_text and
\* producer and no price, country or tried column: the row kept producer,
\* has the default in country and tried, and its price from price_text.
C23_Witness ==
  /\ raised = "ValueError"
  /\ 1 \in DOMAIN rows
  /\ {"price", "price_text", "tried", "country"} \subseteq dbCols
  /\ rows[1]["producer"] = "d" /\ rows[1]["country"] = ""
  /\ rows[1]["price"] = "$16.00" /\ rows[1]["price_text"] = "$16.00"
  /\ rows[1]["tried"] = 0


\* C24: once a run has opened the database, the table has every field of the
\* remote record (image included) and tried, and every item the run has
\* written to Firestore and passed to the SQLite write has a row.
C24_FreshStoreAcceptsUpsert ==
  pc \in {"fetch", "items", "remote", "local", "stale_fs", "stale_sql", "notify", "done"} =>
    /\ ({"roaster", "title", "url", "price", "in_stock", "first_seen", "last_seen",
         "image", "tried"} \cup DetailFields) \subseteq dbCols
    /\ \A k \in hist.remoteWrote : pc # "local" => k[2] \in DOMAIN rows


\* C25: when the Firestore staleness pass fails for some sources, the pass
\* has still marked the unseen documents of every other source of the map,
\* the SQLite staleness pass still runs (unless it fails itself, its unseen
\* rows are out of stock), and the run reaches the notification step.
C25_RemoteStalenessIsolated ==
  /\ []((hist.staleFsFailed # {} /\ pc \in {"stale_sql", "notify", "done"}) =>
          /\ hist.staleFsFailed \subseteq DOMAIN SeenIdsFiltered
          /\ \A id \in DOMAIN fs :
               LET r == Get(fs[id], "roaster", "")
               IN (r \in DOMAIN SeenIdsFiltered \ hist.staleFsFailed
                   /\ id \notin SeenIdsFiltered[r])
                    => fs[id]["in_stock"] = FALSE
          /\ pc \in {"notify", "done"} =>
               /\ hist.staleSql = DOMAIN SeenUrlsFiltered
               /\ ~hist.staleSqlFailed =>
                    \A u \in DOMAIN rows :
                      LET r == rows[u]["roaster"]
                      IN (r \in DOMAIN SeenUrlsFiltered /\ u \notin SeenUrlsFiltered[r])
                           => rows[u]["in_stock"] = 0)
  /\ ((hist.staleFsFailed # {} /\ pc = "stale_sql") ~> (pc = "notify"))

\* C25 witness: the Firestore pass failed for r2 only; the document of r1
\* that the run did not see is out of stock, its row too, and the run is at
\* the notification step.
C25_Witness ==
  /\ pc = "notify"
  /\ hist.staleFsFailed = {"r2"}
  /\ DOMAIN SeenIdsFiltered = {"r1", "r2"}
  /\ ~hist.staleSqlFailed
  /\ \E id \in DOMAIN fs :
       /\ fs[id]["roaster"] = "r1" /\ id \notin SeenIdsFiltered["r1"]
       /\ id \in DOMAIN hist.fs0 /\ hist.fs0[id]["in_stock"] = TRUE
       /\ fs[id]["in_stock"] = FALSE
       /\ fs[id]["url"] \in DOMAIN rows /\ rows[fs[id]["url"]]["in_stock"] = 0


\* C26: when a sync has completed, every Firestore document with a URL has a
\* row with that URL whose title, price, in_stock, first_seen and last_seen
\* are the document's.
C26_SyncAgreement ==
  last = "sync" =>
    \A id \in DOMAIN fs :
      LET d == fs[id]
          u == Get(d, "url", 0)
      IN u # 0 =>
           /\ u \in DOMAIN rows
           /\ rows[u]["title"] = Get(d, "title", "")
           /\ rows[u]["price"] = Get(d, "price", "")
           /\ rows[u]["in_stock"] = (IF Get(d, "in_stock", FALSE) THEN 1 ELSE 0)
           /\ rows[u]["first_seen"] = Get(d, "first_seen", 0)
           /\ rows[u]["last_seen"] = Get(d, "last_seen", 0)


\* C27: within a run the staleness passes start only when the loop over the
\* sources is over and no item is in flight; the stores change only at an
\* item write (before any pass) or at their staleness pass; the Firestore
\* pass is followed by the SQLite pass and that by the notification step;
\* and delivery happens at the notification step only.
C27_PhaseOrder ==
  [][pc # "idle" =>
       /\ pc \in {"stale_fs", "stale_sql"} => (cfg > Len(roasters) /\ p = NoProduct)
       /\ pc \in {"remote", "local"} =>
            (cfg <= Len(roasters) /\ hist.staleFs = {} /\ hist.staleSql = {}
             /\ hist.notified = 0)
       /\ fs' # fs => pc \in {"remote", "stale_fs"}
       /\ rows' # rows => pc \in {"local", "stale_sql"}
       /\ pc' = "stale_sql" <=> pc = "stale_fs"
       /\ pc' = "notify" <=> pc = "stale_sql"
       /\ (hist'.notified > hist.notified
           \/ (hist.delivery.outcome = "not called" /\ hist'.delivery.outcome # "not called"))
            => pc = "notify"]_vars

\* C27 witness: a run over both sources has written a new item, marked a
\* document and its row out of stock, and delivered the message.
C27_Witness ==
  /\ pc = "done"
  /\ hist.notified = 1 /\ hist.delivery.outcome = "posted"
  /\ hist.staleFs = {"r1", "r2"} /\ hist.staleSql = {"r1", "r2"}
  /\ \E id \in DOMAIN hist.fs0 :
       /\ hist.fs0[id]["in_stock"] = TRUE /\ fs[id]["in_stock"] = FALSE
       /\ fs[id]["url"] \in DOMAIN rows /\ rows[fs[id]["url"]]["in_stock"] = 0


\* The rows of the table before the pass that the pass matches for source r.
C28_Matched(r) ==
  {u \in DOMAIN hist.rows0 :
     hist.rows0[u]["roaster"] = r /\ u \notin seen_urls_by_roaster[r]}

\* C28: mark_stale_sqlite sets in_stock = 0 on exactly the rows of a source
\* of the map whose URL is not in the source's set (every row of the source
\* when the set is empty), changes no other row or column, and returns the
\* number of rows matched, summed over the sources of the map.
C28_LocalStalePassExact ==
  last = "mark_stale_sqlite" =>
    /\ DOMAIN rows = DOMAIN hist.rows0
    /\ \A u \in DOMAIN rows :
         rows[u] = IF \E r \in DOMAIN seen_urls_by_roaster : u \in C28_Matched(r)
                     THEN [hist.rows0[u] EXCEPT !["in_stock"] = 0]
                     ELSE hist.rows0[u]
    /\ \A r \in DOMAIN seen_urls_by_roaster :
         seen_urls_by_roaster[r] = {} =>
           \A u \in DOMAIN rows : rows[u]["roaster"] = r => rows[u]["in_stock"] = 0
    /\ hist.ret = (IF "r1" \in DOMAIN seen_urls_by_roaster
                     THEN Cardinality(C28_Matched("r1")) ELSE 0)
                  + (IF "r2" \in DOMAIN seen_urls_by_roaster
                       THEN Cardinality(C28_Matched("r2")) ELSE 0)

\* C28 witness: a pass with {1} for r1 and the empty set for r2 kept r1's row
\* 1 in stock, put r1's row 2 and r2's row 3 out of stock, and returned 2.
C28_Witness ==
  /\ last = "mark_stale_sqlite"
  /\ seen_urls_by_roaster = [r \in {"r1", "r2"} |-> IF r = "r1" THEN {1} ELSE {}]
  /\ DOMAIN rows = {1, 2, 3}
  /\ rows[1]["roaster"] = "r1" /\ rows[2]["roaster"] = "r1" /\ rows[3]["roaster"] = "r2"
  /\ \A u \in {1, 2, 3} : hist.rows0[u]["in_stock"] = 1
  /\ rows[1]["in_stock"] = 1 /\ rows[2]["in_stock"] = 0 /\ rows[3]["in_stock"] = 0
  /\ hist.ret = 2


\* C29: an item whose enrichment yielded the empty map, once its store calls
\* (all succeeding) are over, has its document under the id of its URL with
\* empty detail fields, has its row, is in the seen sets of its source and,
\* when the index loaded at the start of the run lacks its id, is in the
\* new-items list.
C29_EnrichmentBestEffort ==
  \A k \in hist.bare :
    (pc \in {"items", "fetch", "stale_fs"} /\ p = NoProduct) =>
      LET id == product_id_from_url(k[2])
      IN /\ id \in DOMAIN fs
         /\ \A f \in DetailFields : fs[id][f] = ""
         /\ k[2] \in DOMAIN rows
         /\ id \in Get(seen_ids_by_roaster, k[1], {})
         /\ k[2] \in Get(seen_urls_by_roaster, k[1], {})
         /\ id \notin DOMAIN existing => \E i \in 1..Len(new_items) : new_items[i].id = id


\* C30: whatever fails, a started run reaches its return; it leaves run_once
\* through the return only; the sources are taken one after the other in
\* the configured order, and at the return each has been attempted (its
\* fetch raised or succeeded) and the value returned is the length of the
\* new-items list.
C30_RunTerminates ==
  /\ (pc # "idle") ~> (pc = "done")
  /\ [][/\ pc' = "idle" => pc \in {"idle", "done"}
        /\ (pc # "idle" /\ pc' # "idle" /\ cfg' # cfg) =>
             (cfg' = cfg + 1 /\ roasters[cfg] \in hist'.raised \cup succeeded_roasters')]_vars
  /\ [](pc = "done" =>
          /\ cfg = Len(roasters) + 1
          /\ hist.raised \cup succeeded_roasters = {roasters[i] : i \in 1..Len(roasters)}
          /\ hist.ret = Len(new_items))

\* C30 witness: a run has reached its return after a fetch that raised, an
\* item without enrichment, two failed staleness passes and a failed
\* delivery, and returns 1.
C30_Witness ==
  /\ pc = "done"
  /\ hist.raised # {} /\ succeeded_roasters # {}
  /\ hist.bare # {}
  /\ hist.staleFsFailed # {} /\ hist.staleSqlFailed
  /\ hist.delivery.outcome = "failed"
  /\ hist.ret = 1 /\ Len(new_items) = 1


\* C31: within a run no identifier is in the new-items list twice.
C31_NewItemsDistinct ==
  \A i, j \in 1..Len(new_items) : new_items[i].id = new_items[j].id => i = j


\* C32: at the end of a run every document the run created (its id absent
\* from Firestore when the run started) is in the run's new-items list.
C32_CreatedIsReported ==
  pc \in {"notify", "done"} =>
    \A id \in DOMAIN fs \ DOMAIN hist.fs0 :
      \E i \in 1..Len(new_items) : new_items[i].id = id


\* C33: the staleness passes of a run leave alone the in_stock of every item
\* an adapter yielded in that run: of its document and of its row.
C33_YieldedNotStaled ==
  [][(pc = "stale_fs" \/ pc = "stale_sql") =>
       (\A o \in hist.obs :
          /\ product_id_from_url(o.url) \in DOMAIN fs =>
               (fs'[product_id_from_url(o.url)]["in_stock"]
                  = fs[product_id_from_url(o.url)]["in_stock"])
          /\ o.url \in DOMAIN rows =>
               (rows'[o.url]["in_stock"] = rows[o.url]["in_stock"]))]_vars


\* C34: at the end of a run, an item whose enrichment yielded the empty map
\* and that the stores knew before the run has the detail values the stores
\* held for it before the run.
C34_FailedEnrichmentKeepsDetails ==
  pc \in {"notify", "done"} =>
    \A k \in hist.bare :
      /\ product_id_from_url(k[2]) \in DOMAIN hist.fs0 =>
           \A f \in DetailFields :
             fs[product_id_from_url(k[2])][f] = hist.fs0[product_id_from_url(k[2])][f]
      /\ (k[2] \in DOMAIN hist.rows0 /\ k[2] \in DOMAIN rows) =>
           \A f \in DetailFields : rows[k[2]][f] = hist.rows0[k[2]][f]


\* C35: a staleness pass of a run adds and removes no record, leaves the
\* ledger alone, leaves every record whose stored source is not in the map
\* passed as it was, and of the others changes at most in_stock, to false.
C35_StalePassFrame ==
  [][(pc = "stale_fs" \/ pc = "stale_sql") =>
       (/\ DOMAIN fs' = DOMAIN fs /\ DOMAIN rows' = DOMAIN rows /\ tried' = tried
        /\ \A id \in DOMAIN fs :
             /\ fs'[id] \in {fs[id], [fs[id] EXCEPT !["in_stock"] = FALSE]}
             /\ (pc = "stale_sql" \/ fs[id]["roaster"] \notin DOMAIN SeenIdsFiltered)
                  => fs'[id] = fs[id]
        /\ \A u \in DOMAIN rows :
             /\ rows'[u] \in {rows[u], [rows[u] EXCEPT !["in_stock"] = 0]}
             /\ (pc = "stale_fs" \/ rows[u]["roaster"] \notin DOMAIN SeenUrlsFiltered)
                  => rows'[u] = rows[u])]_vars

\* C35 witness: the passes ran for r1 alone; r1's document and row of URL 1
\* went out of stock with their timestamps kept, and the row of URL 2, whose
\* stored source is r2, is still in stock.
C35_Witness ==
  /\ pc = "notify"
  /\ hist.staleFs = {"r1"} /\ hist.staleSql = {"r1"}
  /\ ~hist.faulted
  /\ \E id \in DOMAIN hist.fs0 :
       /\ fs[id]["url"] = 1
       /\ hist.fs0[id]["in_stock"] = TRUE
       /\ fs[id] = [hist.fs0[id] EXCEPT !["in_stock"] = FALSE]
  /\ {1, 2} \subseteq DOMAIN hist.rows0
  /\ hist.rows0[1]["in_stock"] = 1
  /\ rows[1] = [hist.rows0[1] EXCEPT !["in_stock"] = 0]
  /\ rows[2]["roaster"] = "r2" /\ rows[2]["in_stock"] = 1


\* The URLs that have a row and no document.
C36_Orphans == DOMAIN rows \ {Get(fs[id], "url", 0) : id \in DOMAIN fs}

C37_Agree(coll, rws) ==
  \A id \in DOMAIN coll :
    Get(coll[id], "url", 0) \in DOMAIN rws =>
      rws[coll[id]["url"]]["in_stock"] = (IF coll[id]["in_stock"] THEN 1 ELSE 0)

\* C37: at the end of a run in which no item write and no staleness pass
\* failed, started on stores that agree, the stores agree.
C37_AgreementAfterRun ==
  (pc = "done" /\ hist.failed = {} /\ ~hist.faulted /\ C37_Agree(hist.fs0, hist.rows0))
    => C37_Agree(fs, rows)


\* C38: every document and every row has first_seen <= last_seen, and no
\* step decreases the last_seen of a document or of a row.
C38_TimestampOrder ==
  /\ [](/\ \A id \in DOMAIN fs : fs[id]["first_seen"] <= fs[id]["last_seen"]
        /\ \A u \in DOMAIN rows : rows[u]["first_seen"] <= rows[u]["last_seen"])
  /\ [][/\ \A id \in DOMAIN fs \cap DOMAIN fs' :
             fs[id]["last_seen"] <= fs'[id]["last_seen"]
        /\ \A u \in DOMAIN rows \cap DOMAIN rows' :
             rows[u]["last_seen"] <= rows'[u]["last_seen"]]_vars

\* C38 witness: after a run, a later run whose SQLite write failed, a
\* simulation and a sync, the product's document and row are first seen at
\* 1 and last seen at 2.
C38_Witness ==
  /\ last = "sync"
  /\ \E id \in DOMAIN fs :
       /\ fs[id]["url"] = 1
       /\ fs[id]["first_seen"] = 1 /\ fs[id]["last_seen"] = 2
  /\ 1 \in DOMAIN rows
  /\ rows[1]["first_seen"] = 1 /\ rows[1]["last_seen"] = 2
  /\ \E u \in DOMAIN rows : u > 3


\* C39: when unmark-tried returns normally having cleared the tried flag of
\* a row, the tried collection holds no record under the id of the row's URL.
C39_UnmarkKeepsStoresAgreeing ==
  [][(last' = "unmark-tried" /\ raised' = "") =>
       (\A u \in DOMAIN rows \cap DOMAIN rows' :
          (Get(rows[u], "tried", 0) = 1 /\ Get(rows'[u], "tried", 0) = 0)
            => product_id_from_url(u) \notin DOMAIN tried')]_vars


\* C40: after any mark call returns, the record has last_notes exactly when
\* the call gave notes, and then those notes, and last_rating exactly when
\* the call gave a rating, and then that rating.
C40_LastFieldsAreTheCalls ==
  [][\A id0 \in LedgerIds, url0 \in LedgerUrls, args \in MarkArgs,
        lookupOk \in BOOLEAN, historyOk \in BOOLEAN :
       (last' = "mark-tried" /\ raised' = ""
        /\ MarkTriedCall(id0, url0, args, lookupOk, historyOk)) =>
         LET rec == tried'[LedgerId(id0, url0)]
         IN /\ ("last_notes" \in DOMAIN rec) <=> (args.notes # "")
            /\ Get(rec, "last_notes", "") = args.notes
            /\ LastRating(rec) = args.rating]_vars

====
